---- MODULE Spec2Model ----
(***************************************************************************)
(* Model of the multi-agent blog generation workflow                       *)
(* (src/src/agents/orchestrator_agent.py and the collaborators it calls).  *)
(*                                                                         *)
(* Conventions                                                             *)
(*  - A text is the sequence of its whitespace-delimited words with the    *)
(*    punctuation dropped; len(text.split()) is Len of the sequence and an *)
(*    f-string is the concatenation of its literal words and its values.   *)
(*  - Scores are integers in tenths: overall_quality 5.5 is 55, the        *)
(*    threshold 7.0 is 70, threshold - 1.0 is threshold - 10, and          *)
(*    confidence_level 0.1 is 1.                                           *)
(*  - An exception is a record of its class and its message text.          *)
(*  - The outcome of an awaited call is [ok |-> TRUE, val |-> v] or        *)
(*    [ok |-> FALSE, exc |-> e].                                           *)
(***************************************************************************)
EXTENDS Integers, Sequences, FiniteSets, TLC

\* ------------------------------------------------------------------ bounds
MaxIter == 3
MaxItems == 2
MaxFormatItems == 4
MaxUpdates == 3
MaxCalls == 3

\* -------------------------------------------------------------- constants
MaxQuality == 100

\* ------------------------------------------------------------------- text
LowerTable ==
  [w \in {"Timeout", "Rate", "Limit", "Maximum", "Draft", "Major", "Moderate", "Quality"} |->
     CASE w = "Timeout" -> "timeout"
       [] w = "Rate" -> "rate"
       [] w = "Limit" -> "limit"
       [] w = "Maximum" -> "maximum"
       [] w = "Draft" -> "draft"
       [] w = "Major" -> "major"
       [] w = "Moderate" -> "moderate"
       [] w = "Quality" -> "quality"]

\* str.lower() on one word
Lower(w) == IF w \in DOMAIN LowerTable THEN LowerTable[w] ELSE w

\* "rate limit" in str(e).lower()
ContainsRateLimit(s) ==
  \E i \in 1..(Len(s) - 1) :
     Lower(s[i]) = "rate" /\ Lower(s[i + 1]) \in {"limit", "limiting"}

\* phrase in text.lower(), for a phrase of whole lower-case words
Mentions(s, phrase) ==
  \E i \in 0..(Len(s) - Len(phrase)) :
     \A j \in 1..Len(phrase) : Lower(s[i + j]) = phrase[j]

\* "timeout" in str(e).lower()
ContainsTimeout(s) == \E i \in 1..Len(s) : Lower(s[i]) = "timeout"

\* str(e)[:100]: the message cut after its first 100 characters, taken as
\* its first 16 words; a longer message loses its tail.
TruncateWords == 16
Truncate100(s) == IF Len(s) <= TruncateWords THEN s ELSE SubSeq(s, 1, TruncateWords)

\* ------------------------------------------------------------- exceptions
Exc(type, msg) == [type |-> type, msg |-> msg, stage |-> "", orig |-> ""]

Ok(v) == [ok |-> TRUE, val |-> v]
Raise(e) == [ok |-> FALSE, exc |-> e]

StageErrors == {"ResearchError", "WritingError", "CritiqueError"}

\* OrchestrationError(message, workflow_stage=..., original_error=e)
OrchestrationError(msg, stage, e) ==
  [type |-> "OrchestrationError", msg |-> msg, stage |-> stage, orig |-> e.type]

\* e.__class__.__name__.replace('Error', '').lower()
PhaseOf(type) ==
  CASE type = "ResearchError" -> "research"
    [] type = "WritingError" -> "writing"
    [] type = "CritiqueError" -> "critique"
    [] OTHER -> "orchestration"

\* ---------------------------------------------------------- input domains
\* Topics a caller passes; <<>> is "" and <<" ">> is a topic of white space
\* only, kept as one token that str.strip() removes.
Topics == {<<"exercise">>, <<"handling", "Timeout">>, <<>>, <<" ">>}

\* topic.strip(), as words
Strip(text) == SelectSeq(text, LAMBDA w : w # " ")

AgentNames == {"research", "writing", "critique"}

\* Messages of the failures a model call or a collaborator can report
\* (the texts used in src/tests/test_agent_error_integration.py).
FailureTexts ==
  {<<"general", "error">>, <<"rate", "limit", "exceeded">>, <<"timeout", "occurred">>}

\* Quality scores and thresholds, in tenths, on a half-point grid.
QualityGrid == {q \in 0..MaxQuality : q % 5 = 0}

Severities == {"minor", "moderate", "major"}

\* ------------------------------------------------------------ data models
\* ResearchOutput (data_models.py)
ResearchOutput(topic, findings, summary, confidence_level) ==
  [topic |-> topic, findings |-> findings, summary |-> summary,
   confidence_level |-> confidence_level]

\* BlogDraft (data_models.py)
BlogDraft(title, introduction, body_sections, conclusion, word_count) ==
  [title |-> title, introduction |-> introduction,
   body_sections |-> body_sections, conclusion |-> conclusion,
   word_count |-> word_count]

\* CritiqueFeedback (data_models.py): section, issue and suggestion are the
\* texts of item number id.
CritiqueFeedback(id, severity) ==
  [section |-> <<"section", id>>, issue |-> <<"issue", id>>,
   suggestion |-> <<"suggestion", id>>, severity |-> severity]

\* Values of the fields a run has not produced yet (None)
NoResearch == ResearchOutput(<<>>, <<>>, <<>>, -1)
NoDraft == BlogDraft(<<>>, <<>>, <<>>, <<>>, -1)
NoFeedback == <<>>

\* CritiqueOutput (data_models.py)
CritiqueOutput(overall_quality, feedback_items, approval_status, summary_feedback) ==
  [overall_quality |-> overall_quality, feedback_items |-> feedback_items,
   approval_status |-> approval_status, summary_feedback |-> summary_feedback]

NoCritique == CritiqueOutput(-1, <<>>, "none", <<>>)

\* BlogGenerationResult (data_models.py); total_processing_time is not modelled.
BlogGenerationResult(final_post, research_data, revision_count, quality_score) ==
  [final_post |-> final_post, research_data |-> research_data,
   revision_count |-> revision_count, quality_score |-> quality_score]

\* usage_tracking as created by generate_blog_post
NewUsageTracking ==
  [research_calls |-> 0, writing_calls |-> 0, critique_calls |-> 0,
   total_tokens |-> 0, api_calls |-> 0, revision_cycles |-> 0]

\* ---------------------------------------------------- Research Collaborator
\* ResearchAgent.research_topic: run is the outcome of self.agent.run
research_topic(run) ==
  IF run.ok THEN Ok(run.val)
  ELSE IF ContainsRateLimit(run.exc.msg) \/ ContainsTimeout(run.exc.msg)
       THEN Raise(Exc("ModelRetry",
                      <<"Research", "failed", "due", "to", "API", "issues">> \o run.exc.msg))
       ELSE Raise(run.exc)

\* The minimal ResearchOutput delegate_research substitutes
MinimalResearch(topic, e) ==
  ResearchOutput(topic, <<>>,
     <<"Limited", "research", "available", "for">> \o topic
        \o <<"due", "to", "technical", "issues">> \o Truncate100(e.msg),
     1)

\* delegate_research that re-raises every failure it does not report as
\* retryable
delegate_research_reraise(ut, topic, call) ==
  LET ut1 == [ut EXCEPT !.research_calls = @ + 1, !.api_calls = @ + 1] IN
  IF call.ok
  THEN [out |-> Ok(call.val),
        ut |-> [ut1 EXCEPT !.total_tokens = @ + Len(call.val.summary) * 2]]
  ELSE LET e == call.exc IN
       [ut |-> ut1,
        out |->
          IF ContainsRateLimit(e.msg)
          THEN Raise(Exc("ModelRetry",
                 <<"Research", "delegation", "failed", "due", "to", "rate", "limiting">> \o e.msg))
          ELSE IF ContainsTimeout(e.msg)
          THEN Raise(Exc("ModelRetry",
                 <<"Research", "delegation", "timed", "out">> \o e.msg))
          ELSE Raise(e)]

\* delegate_research without the timeout branch: a timeout is degraded like
\* any other failure
delegate_research_absorb_timeout(ut, topic, call) ==
  LET ut1 == [ut EXCEPT !.research_calls = @ + 1, !.api_calls = @ + 1] IN
  IF call.ok
  THEN [out |-> Ok(call.val),
        ut |-> [ut1 EXCEPT !.total_tokens = @ + Len(call.val.summary) * 2]]
  ELSE LET e == call.exc IN
       [ut |-> ut1,
        out |->
          IF ContainsRateLimit(e.msg)
          THEN Raise(Exc("ModelRetry",
                 <<"Research", "delegation", "failed", "due", "to", "rate", "limiting">> \o e.msg))
          ELSE IF e.type = "ResearchError"
          THEN Raise(e)
          ELSE Ok(MinimalResearch(topic, e))]

\* OrchestratorAgent.delegate_research: call is the outcome of
\* ctx.deps.research_agent.research_topic; the result carries the outcome of
\* the tool and the usage tracking it leaves behind.
delegate_research(ut, topic, call) ==
  LET ut1 == [ut EXCEPT !.research_calls = @ + 1, !.api_calls = @ + 1] IN
  IF call.ok
  THEN [out |-> Ok(call.val),
        ut |-> [ut1 EXCEPT !.total_tokens = @ + Len(call.val.summary) * 2]]
  ELSE LET e == call.exc IN
       [ut |-> ut1,
        out |->
          IF ContainsRateLimit(e.msg)
          THEN Raise(Exc("ModelRetry",
                 <<"Research", "delegation", "failed", "due", "to", "rate", "limiting">> \o e.msg))
          ELSE IF ContainsTimeout(e.msg)
          THEN Raise(Exc("ModelRetry",
                 <<"Research", "delegation", "timed", "out">> \o e.msg))
          ELSE IF e.type = "ResearchError"
          THEN Raise(e)
          ELSE Ok(MinimalResearch(topic, e))]

\* ----------------------------------------------------- Writing Collaborator
\* Words that end with a colon, and the word without it
ColonWords == {"Post:", "Guide:"}
StripColon(w) == CASE w = "Post:" -> "Post" [] w = "Guide:" -> "Guide" [] OTHER -> w

RECURSIVE BeforeColon(_)
\* title.split(':')[0] if ':' in title else title
BeforeColon(title) ==
  IF title = <<>> THEN <<>>
  ELSE IF Head(title) \in ColonWords THEN <<StripColon(Head(title))>>
  ELSE <<Head(title)>> \o BeforeColon(Tail(title))

RECURSIVE JoinWords(_)
\* ' '.join(body_sections), as words
JoinWords(sections) ==
  IF sections = <<>> THEN <<>> ELSE Head(sections) \o JoinWords(Tail(sections))

\* len(all_text.split()) of title, introduction, body sections and conclusion
CountWords(d) ==
  Len(d.title) + Len(d.introduction) + Len(JoinWords(d.body_sections)) + Len(d.conclusion)

\* The conclusion the Writing Agent generates when the model left it out
SynthConclusion(title) ==
  <<"In", "conclusion">> \o BeforeColon(title)
    \o <<"offers", "significant", "benefits", "worth", "considering", "As", "we've",
         "explored", "in", "this", "article", "the", "evidence", "supports",
         "incorporating", "this", "practice", "into", "your", "routine", "for",
         "optimal", "results">>

\* The except clause shared by create_blog_draft and revise_blog_draft
WritingFailure(e, prefix, stage) ==
  IF ContainsRateLimit(e.msg) \/ ContainsTimeout(e.msg)
  THEN Raise(Exc("ModelRetry", prefix \o e.msg))
  ELSE IF e.type = "ValidationError"
  THEN Raise(e)
  ELSE Raise(Exc("WritingError", stage \o e.msg))

\* create_blog_draft that returns the generated draft without adding a
\* conclusion
create_blog_draft_no_conclusion(topic, research_data, run) ==
  IF topic = <<>> \/ Strip(topic) = <<>>
  THEN Raise(Exc("ValidationError", <<"Topic", "cannot", "be", "empty">>))
  ELSE
    LET prefix == <<"Writing", "failed", "due", "to", "API", "issues">>
        stage == <<"Failed", "to", "create", "blog", "draft", "for", "topic">> \o topic
    IN
    IF ~run.ok THEN WritingFailure(run.exc, prefix, stage)
    ELSE
      LET draft == run.val IN
      IF draft.title = <<>> \/ draft.introduction = <<>> \/ draft.body_sections = <<>>
      THEN WritingFailure(
             Exc("ValidationError",
                 <<"Generated", "draft", "is", "missing", "required", "sections">>),
             prefix, stage)
      ELSE Ok([draft EXCEPT !.word_count = CountWords(draft)])

\* WritingAgent.create_blog_draft: run is the outcome of self.agent.run
create_blog_draft(topic, research_data, run) ==
  IF topic = <<>> \/ Strip(topic) = <<>>
  THEN Raise(Exc("ValidationError", <<"Topic", "cannot", "be", "empty">>))
  ELSE
    LET prefix == <<"Writing", "failed", "due", "to", "API", "issues">>
        stage == <<"Failed", "to", "create", "blog", "draft", "for", "topic">> \o topic
    IN
    IF ~run.ok THEN WritingFailure(run.exc, prefix, stage)
    ELSE
      LET draft == run.val IN
      IF draft.title = <<>> \/ draft.introduction = <<>> \/ draft.body_sections = <<>>
      THEN WritingFailure(
             Exc("ValidationError",
                 <<"Generated", "draft", "is", "missing", "required", "sections">>),
             prefix, stage)
      ELSE
        LET d1 == IF draft.conclusion = <<>>
                  THEN [draft EXCEPT !.conclusion = SynthConclusion(draft.title)]
                  ELSE draft
        IN Ok([d1 EXCEPT !.word_count = CountWords(d1)])

\* `not feedback or not feedback.strip()` on the lines of a feedback text
FeedbackIsBlank(feedback) == \A i \in 1..Len(feedback) : feedback[i] = <<>>

\* WritingAgent.revise_blog_draft: run is the outcome of self.agent.run
revise_blog_draft(original_draft, feedback_text, research_data, run) ==
  IF original_draft = NoDraft
  THEN Raise(Exc("ValidationError", <<"Original", "draft", "cannot", "be", "None">>))
  ELSE IF FeedbackIsBlank(feedback_text)
  THEN Raise(Exc("ValidationError", <<"Feedback", "cannot", "be", "empty">>))
  ELSE
    LET prefix == <<"Revision", "failed", "due", "to", "API", "issues">>
        stage == <<"Failed", "to", "revise", "blog", "draft">> \o original_draft.title
    IN
    IF ~run.ok THEN WritingFailure(run.exc, prefix, stage)
    ELSE
      LET revised_draft == run.val IN
      IF revised_draft.title = <<>> \/ revised_draft.introduction = <<>>
           \/ revised_draft.body_sections = <<>>
      THEN WritingFailure(
             Exc("ValidationError",
                 <<"Revised", "draft", "is", "missing", "required", "sections">>),
             prefix, stage)
      ELSE
        LET d1 == IF revised_draft.conclusion = <<>>
                  THEN IF original_draft.conclusion # <<>>
                       THEN [revised_draft EXCEPT !.conclusion = original_draft.conclusion]
                       ELSE [revised_draft EXCEPT
                               !.conclusion = SynthConclusion(revised_draft.title)]
                  ELSE revised_draft
        IN Ok([d1 EXCEPT !.word_count = CountWords(d1)])

\* The minimal BlogDraft delegate_writing substitutes
MinimalDraft(topic, e) ==
  BlogDraft(
    <<"Blog", "Post:">> \o topic,
    <<"This", "article", "explores">> \o topic \o Truncate100(e.msg),
    << <<"Content", "about">> \o topic
         \o <<"will", "be", "added", "here", "due", "to", "technical", "limitations">> >>,
    <<"In", "conclusion">> \o topic
      \o <<"is", "an", "important", "topic", "that", "requires", "further", "exploration">>,
    50)

\* The call delegate_writing makes on ctx.deps.writing_agent.  A handle of
\* class WritingAgent runs the methods above on the outcome of its model
\* call; any other handle (the tests pass mocks) returns or raises that
\* outcome unchanged.
WritingCall(agent, research_data, feedback, original_draft) ==
  IF agent.impl = "stub" THEN agent.run
  ELSE IF feedback # NoFeedback /\ feedback # << <<>> >> /\ original_draft # NoDraft
  THEN revise_blog_draft(original_draft, feedback, research_data, agent.run)
  ELSE create_blog_draft(research_data.topic, research_data, agent.run)

\* delegate_writing that wraps an unclassified failure in a WritingError
\* instead of substituting the minimal draft
delegate_writing_wrap(ut, research_data, feedback, original_draft, agent) ==
  LET ut1 == [ut EXCEPT !.writing_calls = @ + 1, !.api_calls = @ + 1]
      call == WritingCall(agent, research_data, feedback, original_draft)
  IN
  IF call.ok
  THEN [out |-> Ok(call.val),
        ut |-> [ut1 EXCEPT !.total_tokens =
                  @ + 2 * (Len(call.val.title) + Len(call.val.introduction)
                           + Len(JoinWords(call.val.body_sections))
                           + Len(call.val.conclusion))]]
  ELSE LET e == call.exc IN
       [ut |-> ut1,
        out |->
          IF ContainsRateLimit(e.msg)
          THEN Raise(Exc("ModelRetry",
                 <<"Writing", "delegation", "failed", "due", "to", "rate", "limiting">> \o e.msg))
          ELSE IF ContainsTimeout(e.msg)
          THEN Raise(Exc("ModelRetry",
                 <<"Writing", "delegation", "timed", "out">> \o e.msg))
          ELSE IF e.type = "WritingError"
          THEN Raise(e)
          ELSE Raise(Exc("WritingError", <<"Writing", "delegation", "failed">> \o e.msg))]

\* OrchestratorAgent.delegate_writing
delegate_writing(ut, research_data, feedback, original_draft, agent) ==
  LET ut1 == [ut EXCEPT !.writing_calls = @ + 1, !.api_calls = @ + 1]
      call == WritingCall(agent, research_data, feedback, original_draft)
  IN
  IF call.ok
  THEN [out |-> Ok(call.val),
        ut |-> [ut1 EXCEPT !.total_tokens =
                  @ + 2 * (Len(call.val.title) + Len(call.val.introduction)
                           + Len(JoinWords(call.val.body_sections))
                           + Len(call.val.conclusion))]]
  ELSE LET e == call.exc IN
       [ut |-> ut1,
        out |->
          IF ContainsRateLimit(e.msg)
          THEN Raise(Exc("ModelRetry",
                 <<"Writing", "delegation", "failed", "due", "to", "rate", "limiting">> \o e.msg))
          ELSE IF ContainsTimeout(e.msg)
          THEN Raise(Exc("ModelRetry",
                 <<"Writing", "delegation", "timed", "out">> \o e.msg))
          ELSE IF e.type = "WritingError"
          THEN Raise(e)
          ELSE Ok(MinimalDraft(research_data.topic, e))]

\* ---------------------------------------------------- Critique Collaborator
\* CritiqueAgent.critique_blog_draft: run is the outcome of self.agent.run
critique_blog_draft(run) ==
  IF run.ok THEN Ok(run.val)
  ELSE IF ContainsRateLimit(run.exc.msg) \/ ContainsTimeout(run.exc.msg)
       THEN Raise(Exc("ModelRetry",
                      <<"Critique", "failed", "due", "to", "API", "issues">> \o run.exc.msg))
       ELSE Raise(run.exc)

\* A minimal critique that leaves the approval open
MinimalCritiqueUnapproved(e) ==
  CritiqueOutput(60, <<>>, "needs_revision",
     <<"Unable", "to", "provide", "detailed", "critique", "due", "to",
       "technical", "issues">> \o Truncate100(e.msg))

\* The minimal CritiqueOutput delegate_critique substitutes
MinimalCritique(e) ==
  CritiqueOutput(60, <<>>, "approved",
     <<"Unable", "to", "provide", "detailed", "critique", "due", "to",
       "technical", "issues">> \o Truncate100(e.msg))

RECURSIVE FeedbackWords(_)
\* len(feedback_text.split()) for the issue and suggestion of every item
FeedbackWords(items) ==
  IF items = <<>> THEN 0
  ELSE Len(Head(items).issue) + Len(Head(items).suggestion) + FeedbackWords(Tail(items))

\* delegate_critique that counts the call once the critique has returned
delegate_critique_counts_success(ut, blog_draft, research_data, call) ==
  IF call.ok
  THEN [out |-> Ok(call.val),
        ut |-> [ut EXCEPT !.critique_calls = @ + 1, !.api_calls = @ + 1,
                          !.total_tokens = @ + 2 * FeedbackWords(call.val.feedback_items)]]
  ELSE LET e == call.exc IN
       [ut |-> ut,
        out |->
          IF ContainsRateLimit(e.msg)
          THEN Raise(Exc("ModelRetry",
                 <<"Critique", "delegation", "failed", "due", "to", "rate", "limiting">> \o e.msg))
          ELSE IF ContainsTimeout(e.msg)
          THEN Raise(Exc("ModelRetry",
                 <<"Critique", "delegation", "timed", "out">> \o e.msg))
          ELSE IF e.type = "CritiqueError"
          THEN Raise(e)
          ELSE Ok(MinimalCritique(e))]

\* OrchestratorAgent.delegate_critique: call is the outcome of
\* ctx.deps.critique_agent.critique_blog_draft
delegate_critique(ut, blog_draft, research_data, call) ==
  LET ut1 == [ut EXCEPT !.critique_calls = @ + 1, !.api_calls = @ + 1] IN
  IF call.ok
  THEN [out |-> Ok(call.val),
        ut |-> [ut1 EXCEPT !.total_tokens = @ + 2 * FeedbackWords(call.val.feedback_items)]]
  ELSE LET e == call.exc IN
       [ut |-> ut1,
        out |->
          IF ContainsRateLimit(e.msg)
          THEN Raise(Exc("ModelRetry",
                 <<"Critique", "delegation", "failed", "due", "to", "rate", "limiting">> \o e.msg))
          ELSE IF ContainsTimeout(e.msg)
          THEN Raise(Exc("ModelRetry",
                 <<"Critique", "delegation", "timed", "out">> \o e.msg))
          ELSE IF e.type = "CritiqueError"
          THEN Raise(e)
          ELSE Ok(MinimalCritique(e))]

\* ------------------------------------------------ Revision Decision Policy
\* A reasoning text: its words and the numbers it cites, in order
Reasoning(words, cites) == [words |-> words, cites |-> cites]

\* The decision dictionary
Decision(should_revise, reasoning, c, current_iteration, max_iterations) ==
  [should_revise |-> should_revise, reasoning |-> reasoning,
   quality_score |-> c.overall_quality, approval_status |-> c.approval_status,
   iteration |-> current_iteration, max_iterations |-> max_iterations]

NoDecision == Decision(FALSE, Reasoning(<<>>, <<>>), NoCritique, 0, 0)

\* [f for f in critique_output.feedback_items if f.severity == severity]
IssuesOf(critique_output, severity) ==
  SelectSeq(critique_output.feedback_items, LAMBDA f : f.severity = severity)

\* The reasoning texts of make_revision_decision
ReasonMaxIterations(max_iterations) ==
  Reasoning(<<"Maximum", "iterations", "reached", "Stopping", "revision", "cycle">>,
            <<max_iterations>>)
ReasonApproved == Reasoning(<<"Draft", "approved", "by", "critique", "agent">>, <<>>)
ReasonMeets(q, quality_threshold) ==
  Reasoning(<<"Quality", "score", "meets", "threshold">>, <<q, quality_threshold>>)
ReasonMajor(n, q) ==
  Reasoning(<<"Major", "issues", "found", "and", "quality", "score", "significantly",
              "below", "threshold">>, <<n, q>>)
ReasonModerate(n, q) ==
  Reasoning(<<"Moderate", "issues", "found", "and", "quality", "score", "below",
              "threshold">>, <<n, q>>)
ReasonFarBelow(q, quality_threshold) ==
  Reasoning(<<"Quality", "score", "significantly", "below", "threshold">>,
            <<q, quality_threshold>>)
ReasonAcceptable(q) ==
  Reasoning(<<"Quality", "acceptable", "despite", "minor", "issues">>, <<q>>)

\* make_revision_decision with `current_iteration > max_iterations`
DecisionLateLimit(critique_output, current_iteration, max_iterations, quality_threshold) ==
  LET q == critique_output.overall_quality
      major_issues == IssuesOf(critique_output, "major")
      moderate_issues == IssuesOf(critique_output, "moderate")
      D(rev, why) == Decision(rev, why, critique_output, current_iteration, max_iterations)
  IN
  IF current_iteration > max_iterations
  THEN D(FALSE, ReasonMaxIterations(max_iterations))
  ELSE IF critique_output.approval_status = "approved"
  THEN D(FALSE, ReasonApproved)
  ELSE IF q >= quality_threshold
  THEN D(FALSE, ReasonMeets(q, quality_threshold))
  ELSE IF major_issues # <<>> /\ q < quality_threshold - 10
  THEN D(TRUE, ReasonMajor(Len(major_issues), q))
  ELSE IF moderate_issues # <<>> /\ q < quality_threshold
  THEN D(TRUE, ReasonModerate(Len(moderate_issues), q))
  ELSE IF q < quality_threshold - 20
  THEN D(TRUE, ReasonFarBelow(q, quality_threshold))
  ELSE D(FALSE, ReasonAcceptable(q))

\* make_revision_decision with the iteration limit tested after the approval
\* and threshold rules
DecisionLimitThird(critique_output, current_iteration, max_iterations, quality_threshold) ==
  LET q == critique_output.overall_quality
      major_issues == IssuesOf(critique_output, "major")
      moderate_issues == IssuesOf(critique_output, "moderate")
      D(rev, why) == Decision(rev, why, critique_output, current_iteration, max_iterations)
  IN
  IF critique_output.approval_status = "approved"
  THEN D(FALSE, ReasonApproved)
  ELSE IF q >= quality_threshold
  THEN D(FALSE, ReasonMeets(q, quality_threshold))
  ELSE IF current_iteration >= max_iterations
  THEN D(FALSE, ReasonMaxIterations(max_iterations))
  ELSE IF major_issues # <<>> /\ q < quality_threshold - 10
  THEN D(TRUE, ReasonMajor(Len(major_issues), q))
  ELSE IF moderate_issues # <<>> /\ q < quality_threshold
  THEN D(TRUE, ReasonModerate(Len(moderate_issues), q))
  ELSE IF q < quality_threshold - 20
  THEN D(TRUE, ReasonFarBelow(q, quality_threshold))
  ELSE D(FALSE, ReasonAcceptable(q))

\* make_revision_decision with the approval rule after the threshold rule, so
\* that an approval counts only when there is nothing left to decide
DecisionApprovalLate(critique_output, current_iteration, max_iterations, quality_threshold) ==
  LET q == critique_output.overall_quality
      major_issues == IssuesOf(critique_output, "major")
      moderate_issues == IssuesOf(critique_output, "moderate")
      D(rev, why) == Decision(rev, why, critique_output, current_iteration, max_iterations)
  IN
  IF current_iteration >= max_iterations
  THEN D(FALSE, ReasonMaxIterations(max_iterations))
  ELSE IF q >= quality_threshold
  THEN D(FALSE, ReasonMeets(q, quality_threshold))
  ELSE IF major_issues # <<>> /\ q < quality_threshold - 10
  THEN D(TRUE, ReasonMajor(Len(major_issues), q))
  ELSE IF moderate_issues # <<>> /\ q < quality_threshold
  THEN D(TRUE, ReasonModerate(Len(moderate_issues), q))
  ELSE IF q < quality_threshold - 20
  THEN D(TRUE, ReasonFarBelow(q, quality_threshold))
  ELSE IF critique_output.approval_status = "approved"
  THEN D(FALSE, ReasonApproved)
  ELSE D(FALSE, ReasonAcceptable(q))

\* make_revision_decision with a major rule that ignores the quality gap
DecisionMajorAlways(critique_output, current_iteration, max_iterations, quality_threshold) ==
  LET q == critique_output.overall_quality
      major_issues == IssuesOf(critique_output, "major")
      moderate_issues == IssuesOf(critique_output, "moderate")
      D(rev, why) == Decision(rev, why, critique_output, current_iteration, max_iterations)
  IN
  IF current_iteration >= max_iterations
  THEN D(FALSE, ReasonMaxIterations(max_iterations))
  ELSE IF critique_output.approval_status = "approved"
  THEN D(FALSE, ReasonApproved)
  ELSE IF q >= quality_threshold
  THEN D(FALSE, ReasonMeets(q, quality_threshold))
  ELSE IF major_issues # <<>>
  THEN D(TRUE, ReasonMajor(Len(major_issues), q))
  ELSE IF moderate_issues # <<>> /\ q < quality_threshold
  THEN D(TRUE, ReasonModerate(Len(moderate_issues), q))
  ELSE IF q < quality_threshold - 20
  THEN D(TRUE, ReasonFarBelow(q, quality_threshold))
  ELSE D(FALSE, ReasonAcceptable(q))

\* make_revision_decision with a major rule that reports the number of all
\* feedback items
DecisionMajorCount(critique_output, current_iteration, max_iterations, quality_threshold) ==
  LET q == critique_output.overall_quality
      major_issues == IssuesOf(critique_output, "major")
      moderate_issues == IssuesOf(critique_output, "moderate")
      D(rev, why) == Decision(rev, why, critique_output, current_iteration, max_iterations)
  IN
  IF current_iteration >= max_iterations
  THEN D(FALSE, ReasonMaxIterations(max_iterations))
  ELSE IF critique_output.approval_status = "approved"
  THEN D(FALSE, ReasonApproved)
  ELSE IF q >= quality_threshold
  THEN D(FALSE, ReasonMeets(q, quality_threshold))
  ELSE IF major_issues # <<>> /\ q < quality_threshold - 10
  THEN D(TRUE, ReasonMajor(Len(critique_output.feedback_items), q))
  ELSE IF moderate_issues # <<>> /\ q < quality_threshold
  THEN D(TRUE, ReasonModerate(Len(moderate_issues), q))
  ELSE IF q < quality_threshold - 20
  THEN D(TRUE, ReasonFarBelow(q, quality_threshold))
  ELSE D(FALSE, ReasonAcceptable(q))

\* make_revision_decision without the rule for a quality more than 2.0
\* below the threshold
DecisionFarBelowOff(critique_output, current_iteration, max_iterations, quality_threshold) ==
  LET q == critique_output.overall_quality
      major_issues == IssuesOf(critique_output, "major")
      moderate_issues == IssuesOf(critique_output, "moderate")
      D(rev, why) == Decision(rev, why, critique_output, current_iteration, max_iterations)
  IN
  IF current_iteration >= max_iterations
  THEN D(FALSE, ReasonMaxIterations(max_iterations))
  ELSE IF critique_output.approval_status = "approved"
  THEN D(FALSE, ReasonApproved)
  ELSE IF q >= quality_threshold
  THEN D(FALSE, ReasonMeets(q, quality_threshold))
  ELSE IF major_issues # <<>> /\ q < quality_threshold - 10
  THEN D(TRUE, ReasonMajor(Len(major_issues), q))
  ELSE IF moderate_issues # <<>> /\ q < quality_threshold
  THEN D(TRUE, ReasonModerate(Len(moderate_issues), q))
  ELSE D(FALSE, ReasonAcceptable(q))

\* OrchestratorAgent.make_revision_decision
make_revision_decision(critique_output, current_iteration, max_iterations, quality_threshold) ==
  LET q == critique_output.overall_quality
      major_issues == IssuesOf(critique_output, "major")
      moderate_issues == IssuesOf(critique_output, "moderate")
      D(rev, why) == Decision(rev, why, critique_output, current_iteration, max_iterations)
  IN
  IF current_iteration >= max_iterations
  THEN D(FALSE, ReasonMaxIterations(max_iterations))
  ELSE IF critique_output.approval_status = "approved"
  THEN D(FALSE, ReasonApproved)
  ELSE IF q >= quality_threshold
  THEN D(FALSE, ReasonMeets(q, quality_threshold))
  ELSE IF major_issues # <<>> /\ q < quality_threshold - 10
  THEN D(TRUE, ReasonMajor(Len(major_issues), q))
  ELSE IF moderate_issues # <<>> /\ q < quality_threshold
  THEN D(TRUE, ReasonModerate(Len(moderate_issues), q))
  ELSE IF q < quality_threshold - 20
  THEN D(TRUE, ReasonFarBelow(q, quality_threshold))
  ELSE D(FALSE, ReasonAcceptable(q))

\* One line of formatted feedback: "- <section>: <issue> -> <suggestion>"
FeedbackLine(f) == <<"-">> \o f.section \o f.issue \o <<"->">> \o f.suggestion

RECURSIVE FeedbackLines(_)
FeedbackLines(items) ==
  IF items = <<>> THEN <<>>
  ELSE <<FeedbackLine(Head(items))>> \o FeedbackLines(Tail(items))

\* _format_feedback_for_revision without the cap on minor items
format_feedback_all_minor(critique_output) ==
  LET major_feedback == IssuesOf(critique_output, "major")
      moderate_feedback == IssuesOf(critique_output, "moderate")
      minor_feedback == IssuesOf(critique_output, "minor")
  IN
  <<critique_output.summary_feedback>>
    \o (IF major_feedback # <<>>
        THEN << <<>>, <<"CRITICAL", "ISSUES", "TO", "ADDRESS">> >>
               \o FeedbackLines(major_feedback)
        ELSE <<>>)
    \o (IF moderate_feedback # <<>>
        THEN << <<>>, <<"IMPORTANT", "IMPROVEMENTS">> >>
               \o FeedbackLines(moderate_feedback)
        ELSE <<>>)
    \o (IF minor_feedback # <<>>
        THEN << <<>>, <<"MINOR", "ENHANCEMENTS">> >> \o FeedbackLines(minor_feedback)
        ELSE <<>>)

\* OrchestratorAgent._format_feedback_for_revision: the lines of the text
\* "\n".join(feedback_parts); a header part starts with "\n", which gives an
\* empty line before it.
format_feedback_for_revision(critique_output) ==
  LET major_feedback == IssuesOf(critique_output, "major")
      moderate_feedback == IssuesOf(critique_output, "moderate")
      minor_feedback == IssuesOf(critique_output, "minor")
      first3 == SubSeq(minor_feedback, 1, IF Len(minor_feedback) < 3
                                          THEN Len(minor_feedback) ELSE 3)
  IN
  <<critique_output.summary_feedback>>
    \o (IF major_feedback # <<>>
        THEN << <<>>, <<"CRITICAL", "ISSUES", "TO", "ADDRESS">> >>
               \o FeedbackLines(major_feedback)
        ELSE <<>>)
    \o (IF moderate_feedback # <<>>
        THEN << <<>>, <<"IMPORTANT", "IMPROVEMENTS">> >>
               \o FeedbackLines(moderate_feedback)
        ELSE <<>>)
    \o (IF minor_feedback # <<>>
        THEN << <<>>, <<"MINOR", "ENHANCEMENTS">> >> \o FeedbackLines(first3)
        ELSE <<>>)

\* ------------------------------------------------------ generate_blog_post
\* An except clause that re-raises what it cannot classify
RunFailureRaw(topic, e) ==
  IF ContainsRateLimit(e.msg) \/ ContainsTimeout(e.msg)
  THEN Exc("ModelRetry",
           <<"Orchestration", "failed", "due", "to", "API", "issues">> \o e.msg)
  ELSE IF e.type \in StageErrors
  THEN OrchestrationError(
         <<"Blog", "generation", "failed", "during", PhaseOf(e.type), "phase">> \o e.msg,
         PhaseOf(e.type), e)
  ELSE e

\* An except clause that gives every unclassified failure the stage
\* "orchestration"
RunFailureNoPhase(topic, e) ==
  IF ContainsRateLimit(e.msg) \/ ContainsTimeout(e.msg)
  THEN Exc("ModelRetry",
           <<"Orchestration", "failed", "due", "to", "API", "issues">> \o e.msg)
  ELSE IF e.type \in {"ValidationError", "OrchestrationError"}
  THEN e
  ELSE OrchestrationError(
         <<"Blog", "generation", "failed", "for", "topic">> \o topic \o e.msg,
         "orchestration", e)

\* The except clause of generate_blog_post: the exception the caller sees
\* when e escapes the orchestrated run.
RunFailure(topic, e) ==
  IF ContainsRateLimit(e.msg) \/ ContainsTimeout(e.msg)
  THEN Exc("ModelRetry",
           <<"Orchestration", "failed", "due", "to", "API", "issues">> \o e.msg)
  ELSE IF e.type \in StageErrors
  THEN OrchestrationError(
         <<"Blog", "generation", "failed", "during", PhaseOf(e.type), "phase">> \o e.msg,
         PhaseOf(e.type), e)
  ELSE IF e.type \in {"ValidationError", "OrchestrationError"}
  THEN e
  ELSE OrchestrationError(
         <<"Blog", "generation", "failed", "for", "topic">> \o topic \o e.msg,
         "orchestration", e)

\* ------------------------------------------------------------- run inputs
\* What the Research Agent's model call can give for a topic
ResearchRuns(topic) ==
  {Ok(ResearchOutput(topic, <<"finding1", "finding2">>, <<"Key", "insights">>, 8))}
    \cup {Raise(Exc(t, m)) : t \in {"ValueError", "ResearchError"}, m \in FailureTexts}

\* Drafts a writing model call can give: complete with a wrong reported
\* word count, without a conclusion, without a title
GenDrafts ==
  {BlogDraft(<<"Exercise", "Guide:", "Daily", "Habits">>, <<"Why", "it", "matters">>,
             << <<"Body", "one">>, <<"Body", "two", "more">> >>, <<"Closing", "words">>, 800),
   BlogDraft(<<"Moving", "More">>, <<"Short", "intro">>, << <<"Only", "section">> >>, <<>>, 0),
   BlogDraft(<<>>, <<"Intro">>, << <<"Section">> >>, <<"End">>, 3)}

WritingRuns ==
  {Ok(d) : d \in GenDrafts}
    \cup {Raise(Exc(t, m)) : t \in {"ValueError", "WritingError", "ValidationError"},
                             m \in FailureTexts}

\* Feedback item lists of up to n items; item i of a list has id i
ItemIds == <<"a", "b", "c", "d", "e", "f">>
ItemLists(n) ==
  UNION {{[i \in 1..k |-> CritiqueFeedback(ItemIds[i], sev[i])] : sev \in [1..k -> Severities]}
         : k \in 0..n}

\* Critiques a critique model call can give within a run
RunQualities == {30, 65, 80}
RunItemLists ==
  {<<>>,
   <<CritiqueFeedback("a", "moderate")>>,
   <<CritiqueFeedback("a", "major"), CritiqueFeedback("b", "minor")>>}
RunCritiques ==
  {CritiqueOutput(q, items, st, sm) :
     q \in RunQualities, items \in RunItemLists,
     st \in {"approved", "needs_revision"},
     sm \in {<<"Needs", "work">>}}

CritiqueRuns ==
  {Ok(c) : c \in RunCritiques}
    \cup {Raise(Exc(t, m)) : t \in {"ValueError", "CritiqueError"}, m \in FailureTexts}

\* --------------------------------------------------------- ProgressTracker
\* WorkflowStage values and the progress_map of update_stage and
\* _calculate_overall_progress, in percent
StageProgress(stage) ==
  CASE stage = "initializing" -> 5
    [] stage = "researching" -> 20
    [] stage = "writing_initial" -> 40
    [] stage = "critiquing" -> 60
    [] stage = "revising" -> 80
    [] stage = "finalizing" -> 95
    [] stage = "completed" -> 100
    [] stage = "error" -> 0

Min(a, b) == IF a <= b THEN a ELSE b

\* ProgressUpdate (timestamp not modelled)
ProgressUpdate(stage, agent, message, progress_percent) ==
  [stage |-> stage, agent |-> agent, message |-> message,
   progress_percent |-> progress_percent]

\* AgentProgress (times not modelled)
AgentProgress(status, current_task) == [status |-> status, current_task |-> current_task]

\* Names _initialize_agents registers
TrackerAgents == {"research", "writing", "critique", "orchestrator"}

\* Classes the clause `except Exception` of _send_update catches
ExceptionClasses == {"Exception", "ValueError", "RuntimeError"}

\* A callback: none given, one that returns, one that raises an exception of
\* the named class
Callbacks == {"none", "returns", "ValueError", "RuntimeError"}

\* ProgressTracker.__init__ with a callback; calls counts the invocations of
\* the callback, escaped is the exception that reached the caller of the
\* latest update, call is that update call
NewTracker(callback) ==
  [callback |-> callback,
   current_stage |-> "initializing",
   agents |-> [n \in TrackerAgents |-> AgentProgress("idle", <<>>)],
   updates |-> <<>>,
   revision_count |-> 0,
   max_revisions |-> 3,
   ended |-> FALSE,
   calls |-> 0,
   escaped |-> Exc("none", <<>>),
   call |-> [op |-> "none"]]

\* No tracker: the orchestrator does not use one
NoTracker == [callback |-> "none"]

\* _send_update that calls the callback first and lets its exception pass
send_update_uncaught(t, update) ==
  IF t.callback = "none"
  THEN [t EXCEPT !.updates = Append(@, update)]
  ELSE IF t.callback = "returns"
  THEN [t EXCEPT !.updates = Append(@, update), !.calls = @ + 1]
  ELSE [t EXCEPT !.calls = @ + 1,
                 !.escaped = Exc(t.callback, <<"callback", "failed">>)]

\* ProgressTracker._send_update: the tracker after the update was stored and
\* handed to the callback
send_update(t, update) ==
  LET t1 == [t EXCEPT !.updates = Append(@, update)] IN
  IF t.callback = "none" THEN t1
  ELSE
    LET t2 == [t1 EXCEPT !.calls = @ + 1] IN
    IF t.callback = "returns" \/ t.callback \in ExceptionClasses
    THEN t2
    ELSE [t2 EXCEPT !.escaped = Exc(t.callback, <<"callback", "failed">>)]

\* ProgressTracker._calculate_overall_progress for agents that report the
\* default progress 0.0
calculate_overall_progress(t) == Min(StageProgress(t.current_stage) + 0, 100)

\* ProgressTracker.update_stage(stage) with the default message
update_stage(t, stage) ==
  LET t1 == [t EXCEPT !.current_stage = stage]
      base == StageProgress(stage)
      progress_percent ==
        IF stage = "revising" /\ t.revision_count > 0
        THEN Min(base + Min(t.revision_count * 10, 30), 95)
        ELSE base
      t2 == send_update(t1, ProgressUpdate(stage, "workflow",
                                           <<"Workflow", "stage:", stage>>,
                                           progress_percent))
  IN IF t2.escaped.type # "none" THEN t2
     ELSE [t2 EXCEPT !.ended = IF stage \in {"completed", "error"} THEN TRUE ELSE @]

\* agent_name.title()
Title(agent_name) ==
  CASE agent_name = "research" -> "Research"
    [] agent_name = "writing" -> "Writing"
    [] agent_name = "critique" -> "Critique"
    [] agent_name = "orchestrator" -> "Orchestrator"
    [] agent_name = "editor" -> "Editor"

\* ProgressTracker.update_agent(agent_name, status, task)
update_agent(t, agent_name, status, task) ==
  LET t1 == [t EXCEPT !.agents =
               [n \in DOMAIN t.agents \cup {agent_name} |->
                  IF n = agent_name THEN AgentProgress(status, task) ELSE t.agents[n]]]
  IN send_update(t1, ProgressUpdate(t1.current_stage, agent_name,
                                    IF task # <<>>
                                    THEN <<Title(agent_name), "Agent:">> \o task
                                    ELSE <<Title(agent_name), "Agent:", status>>,
                                    calculate_overall_progress(t1)))

\* ProgressTracker.update_revision_count(count)
update_revision_count(t, count) ==
  LET t1 == [t EXCEPT !.revision_count = count]
  IN send_update(t1, ProgressUpdate(t1.current_stage, "workflow",
                                    <<"Revision", "cycle", count, t1.max_revisions>>,
                                    calculate_overall_progress(t1)))

\* ------------------------------------------------------------------ state
VARIABLES
  pc,                \* position of the run
  topic,             \* generate_blog_post argument
  agents,            \* the collaborator handles that were passed (not None)
  writer,            \* class of the writing handle: "agent" (WritingAgent) or "stub"
  max_iterations,    \* deps.max_iterations
  quality_threshold, \* deps.quality_threshold, in tenths
  has_context,       \* the OrchestrationContext of the run exists
  usage_tracking,    \* context.usage_tracking
  research_data,     \* latest ResearchOutput of the run
  draft,             \* latest BlogDraft of the run
  critique,          \* latest CritiqueOutput of the run
  decision,          \* latest result of make_revision_decision
  feedback,          \* feedback text formatted from the latest critique
  iteration,         \* current iteration, 1-based
  revision_count,    \* revisions performed
  result,            \* the BlogGenerationResult returned, once pc = "returned"
  error,             \* the exception raised to the caller, once pc = "raised"
  cause,             \* where the raised exception came from
  escaped,           \* the exception the except clause of generate_blog_post caught
  last_call,         \* the latest collaborator call and what it raised
  degraded,          \* stages whose result was replaced by the minimal one
  tracker            \* a ProgressTracker, where one is used

vars == <<pc, topic, agents, writer, max_iterations, quality_threshold, has_context,
          usage_tracking, research_data, draft, critique, decision, feedback,
          iteration, revision_count, result, error, cause, escaped, last_call,
          degraded, tracker>>

NoError == Exc("none", <<>>)
NoResult == BlogGenerationResult(NoDraft, NoResearch, -1, -1)
NoCall == [stage |-> "none", raised |-> NoError, tool |-> NoError]

\* A collaborator call of a stage: the exception the collaborator raised and
\* the exception with which the delegating tool ended (NoError if none)
Call(stage, out, tool_out) ==
  [stage |-> stage,
   raised |-> IF out.ok THEN NoError ELSE out.exc,
   tool |-> IF tool_out.ok THEN NoError ELSE tool_out.exc]

\* rate-limit or timeout failure, the retryable class of the error taxonomy
Retryable(e) == e.type = "ModelRetry" \/ ContainsRateLimit(e.msg) \/ ContainsTimeout(e.msg)

Init ==
  /\ pc = "called"
  /\ topic \in Topics
  /\ agents \in {AgentNames} \cup {AgentNames \ {a} : a \in AgentNames}
  /\ writer \in {"agent", "stub"}
  /\ max_iterations \in 0..MaxIter
  /\ quality_threshold \in {70}
  /\ has_context = FALSE
  /\ usage_tracking = NewUsageTracking
  /\ research_data = NoResearch
  /\ draft = NoDraft
  /\ critique = NoCritique
  /\ decision = NoDecision
  /\ feedback = NoFeedback
  /\ iteration = 0
  /\ revision_count = 0
  /\ result = NoResult
  /\ error = NoError
  /\ cause = "none"
  /\ escaped = NoError
  /\ last_call = NoCall
  /\ degraded = {}
  /\ tracker = NoTracker

\* Input validation that tests the topic without stripping it
ValidateInputsNoStrip(t, given) ==
  IF t = <<>>
  THEN Exc("ValidationError", <<"Topic", "cannot", "be", "empty">>)
  ELSE IF given # AgentNames
  THEN Exc("ValidationError", <<"All", "agents", "must", "be", "provided">>)
  ELSE NoError

\* generate_blog_post, lines 87-100: the ValidationError the inputs raise,
\* NoError when they pass
ValidateInputs(t, given) ==
  IF t = <<>> \/ Strip(t) = <<>>
  THEN Exc("ValidationError", <<"Topic", "cannot", "be", "empty">>)
  ELSE IF given # AgentNames
  THEN Exc("ValidationError", <<"All", "agents", "must", "be", "provided">>)
  ELSE NoError

\* A run that begins with the writing call, without research
StartSkipsResearch ==
  /\ pc = "called"
  /\ IF ValidateInputs(topic, agents) # NoError
     THEN /\ error' = ValidateInputs(topic, agents)
          /\ cause' = "validation"
          /\ pc' = "raised"
          /\ UNCHANGED <<has_context, usage_tracking, escaped>>
     ELSE /\ has_context' = TRUE
          /\ usage_tracking' = NewUsageTracking
          /\ pc' = "write"
          /\ UNCHANGED <<error, cause, escaped>>
  /\ UNCHANGED <<tracker, topic, agents, writer, max_iterations, quality_threshold, research_data,
                 draft, critique, decision, feedback, iteration, revision_count,
                 result, last_call, degraded>>

\* generate_blog_post, lines 87-122: input validation and context creation
Start ==
  /\ pc = "called"
  /\ IF ValidateInputs(topic, agents) # NoError
     THEN /\ error' = ValidateInputs(topic, agents)
          /\ cause' = "validation"
          /\ pc' = "raised"
          /\ UNCHANGED <<has_context, usage_tracking, escaped>>
     ELSE /\ has_context' = TRUE
          /\ usage_tracking' = NewUsageTracking
          /\ pc' = "research"
          /\ UNCHANGED <<error, cause, escaped>>
  /\ UNCHANGED <<tracker, topic, agents, writer, max_iterations, quality_threshold, research_data,
                 draft, critique, decision, feedback, iteration, revision_count,
                 result, last_call, degraded>>

\* An exception that leaves a tool ends self.agent.run and reaches the except
\* clause of generate_blog_post.
Escapes(e, from) ==
  /\ escaped' = e
  /\ error' = RunFailure(topic, e)
  /\ cause' = from
  /\ pc' = "raised"

\* Workflow step 1: delegate_research on the topic
Research ==
  /\ pc = "research"
  /\ \E run \in ResearchRuns(topic) :
       LET call == research_topic(run)
           r == delegate_research(usage_tracking, topic, call)
       IN /\ usage_tracking' = r.ut
          /\ last_call' = Call("research", call, r.out)
          /\ IF r.out.ok
             THEN /\ research_data' = r.out.val
                  /\ degraded' = IF call.ok THEN degraded ELSE degraded \cup {"research"}
                  /\ pc' = "write"
                  /\ UNCHANGED <<error, cause, escaped>>
             ELSE /\ Escapes(r.out.exc, "tool")
                  /\ UNCHANGED <<research_data, degraded>>
  /\ UNCHANGED <<tracker, topic, agents, writer, max_iterations, quality_threshold, has_context,
                 draft, critique, decision, feedback, iteration, revision_count,
                 result>>

\* Workflow step 2: delegate_writing for the initial draft (iteration 1)
WriteInitial ==
  /\ pc = "write"
  /\ \E run \in WritingRuns :
       LET agent == [impl |-> writer, run |-> run]
           call == WritingCall(agent, research_data, NoFeedback, NoDraft)
           r == delegate_writing(usage_tracking, research_data, NoFeedback, NoDraft, agent)
       IN /\ usage_tracking' = r.ut
          /\ last_call' = Call("writing", call, r.out)
          /\ IF r.out.ok
             THEN /\ draft' = r.out.val
                  /\ degraded' = IF call.ok THEN degraded ELSE degraded \cup {"writing"}
                  /\ iteration' = 1
                  /\ pc' = "critique"
                  /\ UNCHANGED <<error, cause, escaped>>
             ELSE /\ Escapes(r.out.exc, "tool")
                  /\ UNCHANGED <<draft, degraded, iteration>>
  /\ UNCHANGED <<tracker, topic, agents, writer, max_iterations, quality_threshold, has_context,
                 research_data, critique, decision, feedback, revision_count,
                 result>>

\* Workflow step 3: delegate_critique on the current draft, for the outcomes
\* runs of the Critique Agent's model call
CritiqueStep(runs) ==
  /\ pc = "critique"
  /\ \E run \in runs :
       LET call == critique_blog_draft(run)
           r == delegate_critique(usage_tracking, draft, research_data, call)
       IN /\ usage_tracking' = r.ut
          /\ last_call' = Call("critique", call, r.out)
          /\ IF r.out.ok
             THEN /\ critique' = r.out.val
                  /\ degraded' = IF call.ok THEN degraded \ {"critique"}
                                 ELSE degraded \cup {"critique"}
                  /\ pc' = "decide"
                  /\ UNCHANGED <<error, cause, escaped>>
             ELSE /\ Escapes(r.out.exc, "tool")
                  /\ UNCHANGED <<critique, degraded>>
  /\ UNCHANGED <<tracker, topic, agents, writer, max_iterations, quality_threshold, has_context,
                 research_data, draft, decision, iteration, revision_count, result>>
  /\ feedback' = NoFeedback

Critique == CritiqueStep(CritiqueRuns)

\* A decision step that merges the latest critique with the earlier cycle:
\* it judges the lower of the two qualities
DecideMerged ==
  /\ pc = "decide"
  /\ decision' =
       make_revision_decision(
         [critique EXCEPT !.overall_quality =
            IF decision # NoDecision /\ decision.quality_score < @
            THEN decision.quality_score ELSE @],
         iteration, max_iterations, quality_threshold)
  /\ pc' = IF decision'.should_revise THEN "revise" ELSE "finalize"
  /\ UNCHANGED <<tracker, topic, agents, writer, max_iterations, quality_threshold, has_context,
                 usage_tracking, research_data, draft, critique, feedback, iteration,
                 revision_count, result, error, cause, escaped, last_call, degraded>>

\* Workflow step 4: make_revision_decision on the latest critique
Decide ==
  /\ pc = "decide"
  /\ decision' = make_revision_decision(critique, iteration, max_iterations,
                                        quality_threshold)
  /\ pc' = IF decision'.should_revise THEN "revise" ELSE "finalize"
  /\ UNCHANGED <<tracker, topic, agents, writer, max_iterations, quality_threshold, has_context,
                 usage_tracking, research_data, draft, critique, feedback, iteration,
                 revision_count, result, error, cause, escaped, last_call, degraded>>

\* Workflow step 5: delegate_writing again with the feedback and the draft
Revise ==
  /\ pc = "revise"
  /\ feedback' = format_feedback_for_revision(critique)
  /\ \E run \in WritingRuns :
       LET agent == [impl |-> writer, run |-> run]
           call == WritingCall(agent, research_data, feedback', draft)
           r == delegate_writing(usage_tracking, research_data, feedback', draft, agent)
       IN /\ usage_tracking' = r.ut
          /\ last_call' = Call("writing", call, r.out)
          /\ IF r.out.ok
             THEN /\ draft' = r.out.val
                  /\ degraded' = IF call.ok THEN degraded \ {"writing"}
                                 ELSE degraded \cup {"writing"}
                  /\ iteration' = iteration + 1
                  /\ revision_count' = revision_count + 1
                  /\ pc' = "critique"
                  /\ UNCHANGED <<error, cause, escaped>>
             ELSE /\ Escapes(r.out.exc, "tool")
                  /\ UNCHANGED <<draft, degraded, iteration, revision_count>>
  /\ UNCHANGED <<tracker, topic, agents, writer, max_iterations, quality_threshold, has_context,
                 research_data, critique, decision, result>>

\* A result that reports the writing calls as its revisions
AssembleResultWrites(final_draft, research, revisions, last_critique) ==
  BlogGenerationResult(final_draft, research, revisions + 1,
                       last_critique.overall_quality)

\* The BlogGenerationResult of a run: final draft, research, revision
\* counter and the quality of the last critique
AssembleResult(final_draft, research, revisions, last_critique) ==
  BlogGenerationResult(final_draft, research, revisions,
                       last_critique.overall_quality)

\* Workflow step 7: return the final BlogGenerationResult
Finalize ==
  /\ pc = "finalize"
  /\ result' = AssembleResult(draft, research_data, revision_count, critique)
  /\ pc' = "returned"
  /\ UNCHANGED <<tracker, topic, agents, writer, max_iterations, quality_threshold, has_context,
                 usage_tracking, research_data, draft, critique, decision, feedback,
                 iteration, revision_count, error, cause, escaped, last_call, degraded>>

\* Exceptions self.agent.run raises on its own: a failure of the
\* orchestrator's model request
AgentRunExceptions ==
  {Exc("UnexpectedModelBehavior", <<"general", "error">>),
   Exc("Exception", <<"rate", "limit", "exceeded">>),
   Exc("ResearchError", <<"Research", "failed">>)}

\* self.agent.run raises between two tool calls
AgentRunFails ==
  /\ pc \in {"research", "write", "critique", "decide", "revise", "finalize"}
  /\ \E e \in AgentRunExceptions : Escapes(e, "agent_run")
  /\ UNCHANGED <<tracker, topic, agents, writer, max_iterations, quality_threshold, has_context,
                 usage_tracking, research_data, draft, critique, decision, feedback,
                 iteration, revision_count, result, last_call, degraded>>

Next ==
  \/ Start \/ Research \/ WriteInitial \/ Critique \/ Decide \/ Revise \/ Finalize
  \/ AgentRunFails

Spec == Init /\ [][Next]_vars

\* ------------------------------------------------- tools called directly
\* The unit tests call delegate_critique and make_revision_decision on a
\* mock context with arguments of their own choice; SpecPolicy does the
\* same for every critique, iteration, limit and threshold of the grids.
PolicyThresholds == {0, 60, 70, 95, 100}

PolicyCritiques ==
  {CritiqueOutput(q, items, st, <<"Needs", "work">>) :
     q \in QualityGrid, items \in ItemLists(MaxItems),
     st \in {"approved", "needs_revision"}}

PolicyCritiqueCalls ==
  {Ok(c) : c \in PolicyCritiques}
    \cup {Raise(Exc(t, m)) : t \in {"ValueError", "CritiqueError", "ModelRetry"},
                             m \in FailureTexts}

InitPolicy ==
  /\ pc = "tool_critique"
  /\ topic = <<"exercise">>
  /\ agents = AgentNames
  /\ writer = "stub"
  /\ max_iterations \in 0..MaxIter
  /\ quality_threshold \in PolicyThresholds
  /\ has_context = TRUE
  /\ usage_tracking = NewUsageTracking
  /\ research_data =
       ResearchOutput(topic, <<"finding1">>, <<"Key", "insights">>, 8)
  /\ draft \in {d \in GenDrafts : d.title # <<>> /\ d.conclusion # <<>>}
  /\ critique = NoCritique
  /\ decision = NoDecision
  /\ feedback = NoFeedback
  /\ iteration \in 1..(MaxIter + 1)
  /\ revision_count = 0
  /\ result = NoResult
  /\ error = NoError
  /\ cause = "none"
  /\ escaped = NoError
  /\ last_call = NoCall
  /\ degraded = {}
  /\ tracker = NoTracker

\* await orchestrator.delegate_critique(mock_context, draft, research)
ToolCritique ==
  /\ pc = "tool_critique"
  /\ \E call \in PolicyCritiqueCalls :
       LET r == delegate_critique(usage_tracking, draft, research_data, call)
       IN /\ usage_tracking' = r.ut
          /\ last_call' = Call("critique", call, r.out)
          /\ IF r.out.ok
             THEN /\ critique' = r.out.val
                  /\ degraded' = IF call.ok THEN degraded ELSE degraded \cup {"critique"}
                  /\ pc' = "tool_decide"
                  /\ UNCHANGED <<error, cause, escaped>>
             ELSE /\ error' = r.out.exc
                  /\ cause' = "tool"
                  /\ pc' = "tool_raised"
                  /\ UNCHANGED <<critique, degraded, escaped>>
  /\ UNCHANGED <<tracker, topic, agents, writer, max_iterations, quality_threshold, has_context,
                 research_data, draft, decision, iteration, revision_count, result>>
  /\ UNCHANGED feedback

\* await orchestrator.make_revision_decision(mock_ctx, critique, ...)
ToolDecide ==
  /\ pc = "tool_decide"
  /\ decision' = make_revision_decision(critique, iteration, max_iterations,
                                        quality_threshold)
  /\ pc' = "tool_decided"
  /\ UNCHANGED <<tracker, topic, agents, writer, max_iterations, quality_threshold, has_context,
                 usage_tracking, research_data, draft, critique, feedback, iteration,
                 revision_count, result, error, cause, escaped, last_call, degraded>>

NextPolicy == ToolCritique \/ ToolDecide

SpecPolicy == InitPolicy /\ [][NextPolicy]_vars

\* ------------------------------------------- the max-iterations scenario
\* A run with a threshold of 9.5 whose critiques all ask for revision with a
\* quality more than 2.0 below it
ScenarioCritiqueRuns ==
  {Ok(c) : c \in {c \in RunCritiques : /\ c.approval_status = "needs_revision"
                                       /\ c.overall_quality < 95 - 20}}

InitScenario ==
  /\ pc = "called"
  /\ topic = <<"exercise">>
  /\ agents = AgentNames
  /\ writer \in {"agent", "stub"}
  /\ max_iterations \in 1..MaxIter
  /\ quality_threshold = 95
  /\ has_context = FALSE
  /\ usage_tracking = NewUsageTracking
  /\ research_data = NoResearch
  /\ draft = NoDraft
  /\ critique = NoCritique
  /\ decision = NoDecision
  /\ feedback = NoFeedback
  /\ iteration = 0
  /\ revision_count = 0
  /\ result = NoResult
  /\ error = NoError
  /\ cause = "none"
  /\ escaped = NoError
  /\ last_call = NoCall
  /\ degraded = {}
  /\ tracker = NoTracker

ScenarioCritique == CritiqueStep(ScenarioCritiqueRuns)

NextScenario ==
  \/ Start \/ Research \/ WriteInitial \/ ScenarioCritique \/ Decide \/ Revise
  \/ Finalize

SpecScenario == InitScenario /\ [][NextScenario]_vars

\* ------------------------------------------ feedback formatting, directly
\* The tests call _format_feedback_for_revision on critiques of their own.
FormatCritiques ==
  {CritiqueOutput(60, items, "needs_revision", sm) :
     items \in ItemLists(MaxFormatItems), sm \in {<<"Needs", "work">>, <<>>}}

InitFormat ==
  /\ pc = "tool_format"
  /\ topic = <<"exercise">>
  /\ agents = AgentNames
  /\ writer = "stub"
  /\ max_iterations = MaxIter
  /\ quality_threshold = 70
  /\ has_context = TRUE
  /\ usage_tracking = NewUsageTracking
  /\ research_data = NoResearch
  /\ draft = NoDraft
  /\ critique \in FormatCritiques
  /\ decision = NoDecision
  /\ feedback = NoFeedback
  /\ iteration = 1
  /\ revision_count = 0
  /\ result = NoResult
  /\ error = NoError
  /\ cause = "none"
  /\ escaped = NoError
  /\ last_call = NoCall
  /\ degraded = {}
  /\ tracker = NoTracker

\* formatted = orchestrator._format_feedback_for_revision(critique)
ToolFormat ==
  /\ pc = "tool_format"
  /\ feedback' = format_feedback_for_revision(critique)
  /\ pc' = "tool_formatted"
  /\ UNCHANGED <<tracker, topic, agents, writer, max_iterations, quality_threshold, has_context,
                 usage_tracking, research_data, draft, critique, decision, iteration,
                 revision_count, result, error, cause, escaped, last_call, degraded>>

NextFormat == ToolFormat

SpecFormat == InitFormat /\ [][NextFormat]_vars

\* --------------------------------------- two runs on the same orchestrator
\* Two generate_blog_post invocations awaited together on one
\* OrchestratorAgent.  In SpecPair the variables of a run hold one value per
\* invocation; a step is what one invocation does between two awaits.
Runs == {1, 2}

PairTopics == [r \in Runs |-> IF r = 1 THEN <<"exercise">> ELSE <<"sleep">>]

PairMaxIterations == 2

\* The usage_tracking dictionary an invocation counts in: the one its own
\* OrchestrationContext was created with
TrackingShared(r) == 1

TrackingOf(r) == r

PairResearchRuns(t) ==
  {Ok(ResearchOutput(t, <<"finding1", "finding2">>, <<"Key", "insights">>, 8)),
   Raise(Exc("ValueError", <<"general", "error">>)),
   Raise(Exc("ResearchError", <<"general", "error">>))}

PairWritingRuns ==
  {Ok(BlogDraft(<<"Moving", "More">>, <<"Short", "intro">>, << <<"Only", "section">> >>,
                <<"Closing", "words">>, 9)),
   Raise(Exc("ValueError", <<"general", "error">>)),
   Raise(Exc("WritingError", <<"general", "error">>))}

PairCritiqueRuns ==
  {Ok(CritiqueOutput(65, <<CritiqueFeedback("a", "moderate")>>, "needs_revision",
                     <<"Needs", "work">>)),
   Ok(CritiqueOutput(80, <<>>, "approved", <<"Needs", "work">>)),
   Raise(Exc("ValueError", <<"general", "error">>)),
   Raise(Exc("CritiqueError", <<"timeout", "occurred">>))}

InitPair ==
  /\ pc = [r \in Runs |-> "called"]
  /\ topic = PairTopics
  /\ agents = AgentNames
  /\ writer = "stub"
  /\ max_iterations = PairMaxIterations
  /\ quality_threshold = 70
  /\ has_context = [r \in Runs |-> FALSE]
  /\ usage_tracking = [k \in {TrackingOf(r) : r \in Runs} |-> NewUsageTracking]
  /\ research_data = [r \in Runs |-> NoResearch]
  /\ draft = [r \in Runs |-> NoDraft]
  /\ critique = [r \in Runs |-> NoCritique]
  /\ decision = [r \in Runs |-> NoDecision]
  /\ feedback = [r \in Runs |-> NoFeedback]
  /\ iteration = [r \in Runs |-> 0]
  /\ revision_count = [r \in Runs |-> 0]
  /\ result = [r \in Runs |-> NoResult]
  /\ error = [r \in Runs |-> NoError]
  /\ cause = "none"
  /\ escaped = NoError
  /\ last_call = NoCall
  /\ degraded = {}
  /\ tracker = NoTracker

\* What no step of a pair of runs changes
PairFixed == UNCHANGED <<tracker, topic, agents, writer, max_iterations, quality_threshold, cause,
                         escaped, last_call, degraded>>

\* Invocation r creates its context
PairStart(r) ==
  /\ pc[r] = "called"
  /\ ValidateInputs(topic[r], agents) = NoError
  /\ has_context' = [has_context EXCEPT ![r] = TRUE]
  /\ usage_tracking' = [usage_tracking EXCEPT ![TrackingOf(r)] = NewUsageTracking]
  /\ pc' = [pc EXCEPT ![r] = "research"]
  /\ PairFixed
  /\ UNCHANGED <<research_data, draft, critique, decision, feedback, iteration,
                 revision_count, result, error>>

\* delegate_research of invocation r
PairResearch(r) ==
  /\ pc[r] = "research"
  /\ \E run \in PairResearchRuns(topic[r]) :
       LET t == delegate_research(usage_tracking[TrackingOf(r)], topic[r],
                                  research_topic(run))
       IN /\ usage_tracking' = [usage_tracking EXCEPT ![TrackingOf(r)] = t.ut]
          /\ IF t.out.ok
             THEN /\ research_data' = [research_data EXCEPT ![r] = t.out.val]
                  /\ pc' = [pc EXCEPT ![r] = "write"]
                  /\ UNCHANGED error
             ELSE /\ error' = [error EXCEPT ![r] = RunFailure(topic[r], t.out.exc)]
                  /\ pc' = [pc EXCEPT ![r] = "raised"]
                  /\ UNCHANGED research_data
  /\ PairFixed
  /\ UNCHANGED <<has_context, draft, critique, decision, feedback, iteration,
                 revision_count, result>>

\* delegate_writing of invocation r, for the initial draft or a revision
PairWrite(r) ==
  /\ pc[r] \in {"write", "revise"}
  /\ feedback' = [feedback EXCEPT ![r] = IF pc[r] = "revise"
                                         THEN format_feedback_for_revision(critique[r])
                                         ELSE NoFeedback]
  /\ \E run \in PairWritingRuns :
       LET t == delegate_writing(usage_tracking[TrackingOf(r)], research_data[r],
                                 feedback'[r], draft[r], [impl |-> writer, run |-> run])
       IN /\ usage_tracking' = [usage_tracking EXCEPT ![TrackingOf(r)] = t.ut]
          /\ IF t.out.ok
             THEN /\ draft' = [draft EXCEPT ![r] = t.out.val]
                  /\ iteration' = [iteration EXCEPT ![r] = @ + 1]
                  /\ revision_count' =
                       [revision_count EXCEPT ![r] = IF pc[r] = "revise" THEN @ + 1 ELSE @]
                  /\ pc' = [pc EXCEPT ![r] = "critique"]
                  /\ UNCHANGED error
             ELSE /\ error' = [error EXCEPT ![r] = RunFailure(topic[r], t.out.exc)]
                  /\ pc' = [pc EXCEPT ![r] = "raised"]
                  /\ UNCHANGED <<draft, iteration, revision_count>>
  /\ PairFixed
  /\ UNCHANGED <<has_context, research_data, critique, decision, result>>

\* delegate_critique of invocation r
PairCritique(r) ==
  /\ pc[r] = "critique"
  /\ \E run \in PairCritiqueRuns :
       LET t == delegate_critique(usage_tracking[TrackingOf(r)], draft[r],
                                  research_data[r], critique_blog_draft(run))
       IN /\ usage_tracking' = [usage_tracking EXCEPT ![TrackingOf(r)] = t.ut]
          /\ IF t.out.ok
             THEN /\ critique' = [critique EXCEPT ![r] = t.out.val]
                  /\ pc' = [pc EXCEPT ![r] = "decide"]
                  /\ UNCHANGED error
             ELSE /\ error' = [error EXCEPT ![r] = RunFailure(topic[r], t.out.exc)]
                  /\ pc' = [pc EXCEPT ![r] = "raised"]
                  /\ UNCHANGED critique
  /\ PairFixed
  /\ UNCHANGED <<has_context, research_data, draft, decision, feedback, iteration,
                 revision_count, result>>

\* make_revision_decision of invocation r
PairDecide(r) ==
  /\ pc[r] = "decide"
  /\ decision' = [decision EXCEPT ![r] =
                    make_revision_decision(critique[r], iteration[r], max_iterations,
                                           quality_threshold)]
  /\ pc' = [pc EXCEPT ![r] = IF decision'[r].should_revise THEN "revise" ELSE "finalize"]
  /\ PairFixed
  /\ UNCHANGED <<has_context, usage_tracking, research_data, draft, critique, feedback,
                 iteration, revision_count, result, error>>

\* Invocation r returns its result
PairFinalize(r) ==
  /\ pc[r] = "finalize"
  /\ result' = [result EXCEPT ![r] =
                  AssembleResult(draft[r], research_data[r], revision_count[r], critique[r])]
  /\ pc' = [pc EXCEPT ![r] = "returned"]
  /\ PairFixed
  /\ UNCHANGED <<has_context, usage_tracking, research_data, draft, critique, decision,
                 feedback, iteration, revision_count, error>>

NextPair ==
  \E r \in Runs :
    \/ PairStart(r) \/ PairResearch(r) \/ PairWrite(r) \/ PairCritique(r)
    \/ PairDecide(r) \/ PairFinalize(r)

SpecPair == InitPair /\ [][NextPair]_vars

\* ------------------------------------------------- the revision scenario
\* A run whose critiques all lead to the decision to revise, with and
\* without feedback items and with and without a summary text
RevisionCritiqueRuns ==
  {Ok(CritiqueOutput(30, items, "needs_revision", sm)) :
     items \in {<<>>, <<CritiqueFeedback("a", "moderate")>>},
     sm \in {<<>>, <<"Needs", "work">>}}

RevisionCritique == CritiqueStep(RevisionCritiqueRuns)

NextRevision ==
  \/ Start \/ Research \/ WriteInitial \/ RevisionCritique \/ Decide \/ Revise
  \/ Finalize

SpecRevision == InitScenario /\ [][NextRevision]_vars

\* ------------------------------------------------ a tracker under updates
\* A ProgressTracker that receives up to MaxUpdates calls of update_stage,
\* update_agent and update_revision_count, with each kind of callback.
TrackStages == {"researching", "critiquing", "revising", "completed", "error"}
TrackAgentNames == {"research", "editor"}
TrackStatuses == {"working", "completed", "error"}
TrackTasks == {<<>>, <<"Gathering", "sources">>}
TrackCounts == {1, 2}

InitProgress ==
  /\ pc = "tracking"
  /\ topic = <<"exercise">>
  /\ agents = AgentNames
  /\ writer = "stub"
  /\ max_iterations = MaxIter
  /\ quality_threshold = 70
  /\ has_context = FALSE
  /\ usage_tracking = NewUsageTracking
  /\ research_data = NoResearch
  /\ draft = NoDraft
  /\ critique = NoCritique
  /\ decision = NoDecision
  /\ feedback = NoFeedback
  /\ iteration = 0
  /\ revision_count = 0
  /\ result = NoResult
  /\ error = NoError
  /\ cause = "none"
  /\ escaped = NoError
  /\ last_call = NoCall
  /\ degraded = {}
  /\ tracker \in {NewTracker(callback) : callback \in Callbacks}

\* A call on the tracker begins: nothing has escaped from it yet
Called(t, call) == [t EXCEPT !.escaped = NoError, !.call = call]

\* What an update of the tracker leaves alone
TrackerOnly ==
  UNCHANGED <<pc, topic, agents, writer, max_iterations, quality_threshold, has_context,
              usage_tracking, research_data, draft, critique, decision, feedback,
              iteration, revision_count, result, error, cause, escaped, last_call,
              degraded>>

\* tracker.update_stage(stage)
TrackStage ==
  /\ pc = "tracking"
  /\ Len(tracker.updates) < MaxUpdates
  /\ \E stage \in TrackStages :
       tracker' = update_stage(Called(tracker, [op |-> "update_stage", stage |-> stage]),
                               stage)
  /\ TrackerOnly

\* tracker.update_agent(agent_name, status, task)
TrackAgent ==
  /\ pc = "tracking"
  /\ Len(tracker.updates) < MaxUpdates
  /\ \E agent_name \in TrackAgentNames, status \in TrackStatuses, task \in TrackTasks :
       /\ task # <<>> => status = "working"
       /\ tracker' = update_agent(
                       Called(tracker, [op |-> "update_agent", agent_name |-> agent_name,
                                        status |-> status, task |-> task]),
                       agent_name, status, task)
  /\ TrackerOnly

\* tracker.update_revision_count(count)
TrackRevision ==
  /\ pc = "tracking"
  /\ Len(tracker.updates) < MaxUpdates
  /\ \E count \in TrackCounts :
       tracker' = update_revision_count(
                    Called(tracker, [op |-> "update_revision_count", count |-> count]),
                    count)
  /\ TrackerOnly

NextProgress == TrackStage \/ TrackAgent \/ TrackRevision

SpecProgress == InitProgress /\ [][NextProgress]_vars

\* ------------------------------------------- the tools on one run context
\* Up to MaxCalls calls of delegate_research, delegate_writing and
\* delegate_critique, in any order, on the context of one run; each
\* collaborator call succeeds, fails with an ordinary error, reports a
\* timeout or a rate limit, or raises the error of its stage.
ToolFailures(stage_error) ==
  {Raise(Exc("ValueError", <<"general", "error">>)),
   Raise(Exc("Exception", <<"timeout", "occurred">>)),
   Raise(Exc("Exception", <<"rate", "limit", "exceeded">>)),
   Raise(Exc(stage_error, <<"general", "error">>))}

ToolsResearchRuns(t) ==
  {Ok(ResearchOutput(t, <<"finding1", "finding2">>, <<"Key", "insights">>, 8))}
    \cup ToolFailures("ResearchError")

ToolsWritingRuns ==
  {Ok(BlogDraft(<<"Moving", "More">>, <<"Short", "intro">>, << <<"Only", "section">> >>,
                <<"Closing", "words">>, 9))}
    \cup ToolFailures("WritingError")

ToolsCritiqueRuns ==
  {Ok(CritiqueOutput(65, <<CritiqueFeedback("a", "moderate")>>, "needs_revision",
                     <<"Needs", "work">>))}
    \cup ToolFailures("CritiqueError")

InitTools ==
  /\ pc = "tools"
  /\ topic = <<"exercise">>
  /\ agents = AgentNames
  /\ writer \in {"agent", "stub"}
  /\ max_iterations = MaxIter
  /\ quality_threshold = 70
  /\ has_context = TRUE
  /\ usage_tracking = NewUsageTracking
  /\ research_data = ResearchOutput(topic, <<"finding1">>, <<"Key", "insights">>, 8)
  /\ draft = NoDraft
  /\ critique = NoCritique
  /\ decision = NoDecision
  /\ feedback = NoFeedback
  /\ iteration = 0
  /\ revision_count = 0
  /\ result = NoResult
  /\ error = NoError
  /\ cause = "none"
  /\ escaped = NoError
  /\ last_call = NoCall
  /\ degraded = {}
  /\ tracker = NoTracker

\* What a direct tool call leaves alone
ToolsFixed ==
  UNCHANGED <<tracker, pc, topic, agents, writer, max_iterations, quality_threshold,
              has_context, decision, iteration, revision_count, result, cause, escaped,
              degraded>>

\* await orchestrator.delegate_research(ctx, topic)
ToolsResearch ==
  /\ pc = "tools"
  /\ usage_tracking.api_calls < MaxCalls
  /\ \E run \in ToolsResearchRuns(topic) :
       LET call == research_topic(run)
           r == delegate_research(usage_tracking, topic, call)
       IN /\ usage_tracking' = r.ut
          /\ last_call' = Call("research", call, r.out)
          /\ research_data' = IF r.out.ok THEN r.out.val ELSE research_data
          /\ error' = IF r.out.ok THEN NoError ELSE r.out.exc
  /\ ToolsFixed
  /\ UNCHANGED <<draft, critique, feedback>>

\* await orchestrator.delegate_writing(ctx, research_data, feedback, draft)
ToolsWriting ==
  /\ pc = "tools"
  /\ usage_tracking.api_calls < MaxCalls
  /\ \E run \in ToolsWritingRuns :
       \E fb \in {NoFeedback} \cup (IF critique = NoCritique THEN {}
                                    ELSE {format_feedback_for_revision(critique)}) :
         LET agent == [impl |-> writer, run |-> run]
             call == WritingCall(agent, research_data, fb, draft)
             r == delegate_writing(usage_tracking, research_data, fb, draft, agent)
         IN /\ usage_tracking' = r.ut
            /\ last_call' = Call("writing", call, r.out)
            /\ feedback' = fb
            /\ draft' = IF r.out.ok THEN r.out.val ELSE draft
            /\ error' = IF r.out.ok THEN NoError ELSE r.out.exc
  /\ ToolsFixed
  /\ UNCHANGED <<research_data, critique>>

\* await orchestrator.delegate_critique(ctx, draft, research_data) on a
\* draft written before
ToolsCritique ==
  /\ pc = "tools"
  /\ usage_tracking.api_calls < MaxCalls
  /\ draft # NoDraft
  /\ \E run \in ToolsCritiqueRuns :
       LET call == critique_blog_draft(run)
           r == delegate_critique(usage_tracking, draft, research_data, call)
       IN /\ usage_tracking' = r.ut
          /\ last_call' = Call("critique", call, r.out)
          /\ critique' = IF r.out.ok THEN r.out.val ELSE critique
          /\ error' = IF r.out.ok THEN NoError ELSE r.out.exc
  /\ ToolsFixed
  /\ UNCHANGED <<research_data, draft, feedback>>

NextTools == ToolsResearch \/ ToolsWriting \/ ToolsCritique

SpecTools == InitTools /\ [][NextTools]_vars

\* ================================================================= claims
\* Some item of the critique has the severity
HasSeverity(c, severity) ==
  \E i \in 1..Len(c.feedback_items) : c.feedback_items[i].severity = severity

\* Number of items of the critique with the severity
CountSeverity(c, severity) ==
  Cardinality({i \in 1..Len(c.feedback_items) : c.feedback_items[i].severity = severity})

\* sub occurs in s as a run of consecutive words
Contains(s, sub) ==
  \E i \in 0..(Len(s) - Len(sub)) : \A j \in 1..Len(sub) : s[i + j] = sub[j]

\* A failure that is neither retryable nor a validation error
OrdinaryFailure(e) ==
  e.type \notin {"none", "ModelRetry", "ValidationError"} /\ ~Retryable(e)

\* An ordinary failure that is not one of the stage-specific error classes
GenericFailure(e) == OrdinaryFailure(e) /\ e.type \notin StageErrors

\* The policy has been applied to the critique of the state
Decided == pc = "tool_decided"

\* C4: should_revise is TRUE exactly when iterations remain, the critique
\* needs revision, the quality is below the threshold and (a) a major item
\* comes with quality below threshold - 1.0, or (b) there is a moderate
\* item, or (c) the quality is below threshold - 2.0.
C4_ReviseExactlyWhen ==
  Decided =>
    (decision.should_revise <=>
       /\ iteration < max_iterations
       /\ critique.approval_status = "needs_revision"
       /\ critique.overall_quality < quality_threshold
       /\ \/ HasSeverity(critique, "major")
               /\ critique.overall_quality < quality_threshold - 10
          \/ HasSeverity(critique, "moderate")
          \/ critique.overall_quality < quality_threshold - 20)

\* C4 witness: a needs_revision critique with a major item, no moderate item
\* and quality in [threshold - 1.0, threshold) is accepted.
C4_Witness ==
  /\ Decided
  /\ iteration < max_iterations
  /\ critique.approval_status = "needs_revision"
  /\ HasSeverity(critique, "major") /\ ~HasSeverity(critique, "moderate")
  /\ critique.overall_quality >= quality_threshold - 10
  /\ critique.overall_quality < quality_threshold
  /\ ~decision.should_revise

\* C5: at or past the iteration limit the decision is to stop and the
\* reasoning names the maximum-iterations limit, whatever the critique says.
C5_MaxIterationsStops ==
  (Decided /\ iteration >= max_iterations) =>
    /\ ~decision.should_revise
    /\ Mentions(decision.reasoning.words, <<"maximum", "iterations">>)

C5_Witness ==
  /\ Decided
  /\ iteration >= max_iterations
  /\ critique.approval_status = "needs_revision"
  /\ HasSeverity(critique, "major")
  /\ critique.overall_quality < quality_threshold - 20
  /\ ~decision.should_revise

\* C6: while iterations remain, an approved critique stops the cycle with a
\* reasoning that mentions the approval, whatever its quality and items.
C6_ApprovedStops ==
  (Decided /\ iteration < max_iterations /\ critique.approval_status = "approved") =>
    /\ ~decision.should_revise
    /\ Mentions(decision.reasoning.words, <<"approved">>)

C6_Witness ==
  /\ Decided
  /\ iteration < max_iterations
  /\ critique.approval_status = "approved"
  /\ critique.overall_quality < quality_threshold - 20
  /\ HasSeverity(critique, "major")
  /\ ~decision.should_revise

\* C7: while iterations remain, a needs_revision critique with a major item
\* and quality below threshold - 1.0 is revised; the reasoning cites the
\* number of major issues and quality_score is the critique's quality.
C7_MajorIssuesRevise ==
  (/\ Decided
   /\ iteration < max_iterations
   /\ critique.approval_status = "needs_revision"
   /\ HasSeverity(critique, "major")
   /\ critique.overall_quality < quality_threshold - 10) =>
    /\ decision.should_revise
    /\ Mentions(decision.reasoning.words, <<"major", "issues">>)
    /\ decision.reasoning.cites[1] = CountSeverity(critique, "major")
    /\ decision.quality_score = critique.overall_quality

C7_Witness ==
  /\ Decided
  /\ iteration < max_iterations
  /\ critique.approval_status = "needs_revision"
  /\ CountSeverity(critique, "major") = 1
  /\ Len(critique.feedback_items) = 2
  /\ critique.overall_quality = quality_threshold - 15
  /\ decision.should_revise

\* C10: a generic failure of the Critique Collaborator gives a critique of
\* quality 6.0 with no items and status approved, and the policy stops on
\* it for every iteration, limit and threshold.
C10_FailedCritiqueStops ==
  (last_call.stage = "critique" /\ GenericFailure(last_call.raised)) =>
    /\ pc \in {"tool_decide", "tool_decided"}
    /\ critique.overall_quality = 60
    /\ critique.feedback_items = <<>>
    /\ critique.approval_status = "approved"
    /\ (Decided => ~decision.should_revise)

C10_Witness ==
  /\ Decided
  /\ last_call.stage = "critique" /\ GenericFailure(last_call.raised)
  /\ iteration < max_iterations
  /\ critique.overall_quality < quality_threshold - 20
  /\ ~decision.should_revise

\* The run ended because an exception left a tool
AbortedByTool == pc = "raised" /\ cause = "tool"

\* C1: an ordinary (non-retryable, non-validation) failure of a collaborator
\* call, of whatever exception class, never aborts generate_blog_post.
C1_OrdinaryFailureNeverAborts ==
  (last_call.stage # "none" /\ OrdinaryFailure(last_call.raised)) => ~AbortedByTool

\* Steps a run can still take: four per remaining iteration and the rank of
\* its position
RunRank ==
  CASE pc = "called" -> 3
    [] pc = "research" -> 2
    [] pc = "write" -> 1
    [] pc = "critique" -> 4
    [] pc = "decide" -> 3
    [] pc = "revise" -> 2
    [] pc = "finalize" -> 1
    [] OTHER -> 0
RunMeasure == 4 * (max_iterations - iteration) + RunRank

\* C2: with max_iterations >= 1 a run makes at most max_iterations writing
\* calls and returns revision_count <= max_iterations - 1; it terminates:
\* every step lowers the non-negative number of steps it can still take.
C2_BoundedWriting ==
  /\ [](max_iterations >= 1 =>
          /\ usage_tracking.writing_calls <= max_iterations
          /\ iteration <= max_iterations
          /\ RunMeasure >= 0
          /\ (pc = "returned" =>
                /\ result # NoResult
                /\ result.revision_count <= max_iterations - 1))
  /\ [][max_iterations >= 1 => RunMeasure' < RunMeasure]_vars

C2_Witness ==
  /\ pc = "returned"
  /\ max_iterations >= 2
  /\ usage_tracking.writing_calls = max_iterations
  /\ result.revision_count = max_iterations - 1

\* C3: a run returns a result or raises one of ValidationError, ModelRetry
\* and OrchestrationError; no other exception class reaches the caller.
C3_ClassifiedOutcome ==
  /\ pc = "raised" =>
       /\ error.type \in {"ValidationError", "ModelRetry", "OrchestrationError"}
       /\ result = NoResult
  /\ pc = "returned" => (error = NoError /\ result # NoResult)
  /\ pc \notin {"raised", "tool_raised"} => error = NoError

C3_Witness ==
  /\ pc = "raised"
  /\ cause = "agent_run"
  /\ error.type = "OrchestrationError"
  /\ error.stage = "orchestration"
  /\ error.orig = "UnexpectedModelBehavior"

\* C8: a generic failure of the Research Collaborator is replaced by a
\* ResearchOutput with the topic, no findings and confidence 0.1, and a run
\* that returns carries that research data.
C8_ResearchDegrades ==
  /\ (last_call.stage = "research" /\ GenericFailure(last_call.raised)) =>
       /\ ~AbortedByTool
       /\ "research" \in degraded
  /\ "research" \in degraded =>
       /\ research_data.topic = topic
       /\ research_data.findings = <<>>
       /\ research_data.confidence_level = 1
       /\ (pc = "returned" => result.research_data = research_data)

C8_Witness ==
  /\ pc = "returned"
  /\ "research" \in degraded
  /\ result.research_data.findings = <<>>
  /\ result.research_data.confidence_level = 1

\* C9: a generic failure of the Writing Collaborator, on the initial draft or
\* on a revision, is replaced by a minimal draft (title with the topic,
\* introduction, one body section at least, conclusion) and the run goes on
\* to critique.
C9_WritingDegrades ==
  (last_call.stage = "writing" /\ GenericFailure(last_call.raised)) =>
    /\ pc \in {"critique", "raised"} /\ ~AbortedByTool
    /\ "writing" \in degraded
    /\ Contains(draft.title, topic)
    /\ draft.introduction # <<>>
    /\ Len(draft.body_sections) >= 1
    /\ draft.conclusion # <<>>

C9_Witness ==
  /\ pc = "critique"
  /\ revision_count >= 1
  /\ last_call.stage = "writing" /\ GenericFailure(last_call.raised)
  /\ Contains(draft.title, topic)

\* The text of the failure names a rate limit or a timeout
Reports(e) == ContainsRateLimit(e.msg) \/ ContainsTimeout(e.msg)

\* A failure with such a text left the tool as ModelRetry and left
\* generate_blog_post as ModelRetry
RetrySignalRaised ==
  /\ (last_call.stage # "none" /\ Reports(last_call.raised)) =>
       /\ last_call.tool.type = "ModelRetry"
       /\ pc = "raised" /\ cause = "tool"
       /\ escaped = last_call.tool
  /\ (pc = "raised" /\ Reports(escaped)) =>
       /\ error.type = "ModelRetry"
       /\ result = NoResult

\* C11: a collaborator failure whose text names a rate limit or a timeout
\* makes the delegating tool raise ModelRetry: no minimal result flows on,
\* generate_blog_post raises ModelRetry for every escaping failure with such
\* a text, and no step calls a collaborator more than once.
C11_RetrySignalNotAbsorbed ==
  /\ []RetrySignalRaised
  /\ [][/\ usage_tracking'.api_calls <= usage_tracking.api_calls + 1
        /\ usage_tracking'.research_calls <= usage_tracking.research_calls + 1
        /\ usage_tracking'.writing_calls <= usage_tracking.writing_calls + 1
        /\ usage_tracking'.critique_calls <= usage_tracking.critique_calls + 1]_vars

C11_Witness ==
  /\ pc = "raised"
  /\ last_call.stage = "critique"
  /\ ContainsTimeout(last_call.raised.msg)
  /\ revision_count >= 1
  /\ error.type = "ModelRetry"

\* C12: a topic that is empty or white space only, or a missing collaborator
\* handle, ends generate_blog_post with a ValidationError of its own: no
\* context, no usage tracking, no collaborator call, no wrapping.
C12_InvalidInputsRejected ==
  (pc # "called" /\ (topic = <<>> \/ Strip(topic) = <<>> \/ agents # AgentNames)) =>
    /\ pc = "raised"
    /\ error.type = "ValidationError"
    /\ cause = "validation"
    /\ escaped = NoError
    /\ ~has_context
    /\ usage_tracking = NewUsageTracking
    /\ last_call = NoCall
    /\ result = NoResult

C12_Witness ==
  /\ pc = "raised"
  /\ topic # <<>> /\ Strip(topic) = <<>>
  /\ agents = AgentNames
  /\ error.type = "ValidationError"

\* C13: a run called with max_iterations < 1 fails with ValidationError
\* before any collaborator is called.
C13_IterationLimitValidated ==
  (pc # "called" /\ max_iterations < 1) =>
    /\ pc = "raised"
    /\ error.type = "ValidationError"
    /\ last_call = NoCall

\* C14: every draft that leaves the writing stage of a run with a
\* WritingAgent, and the draft of the result, has word_count equal to the
\* number of words of its title, introduction, body sections and conclusion.
C14_WordCountComputed ==
  /\ (writer = "agent" /\ draft # NoDraft) => draft.word_count = CountWords(draft)
  /\ (writer = "agent" /\ pc = "returned") =>
       result.final_post.word_count = CountWords(result.final_post)

\* C15: the result of a run that returns is made of the run's latest draft,
\* its research data, the number of revisions performed (the writing calls
\* after the first) and the quality of the last critique, which is the
\* critique of that draft.
C15_ResultFromRunState ==
  pc = "returned" =>
    /\ result.final_post = draft
    /\ result.research_data = research_data
    /\ result.research_data.topic = topic
    /\ result.revision_count = revision_count
    /\ result.revision_count = usage_tracking.writing_calls - 1
    /\ result.quality_score = critique.overall_quality
    /\ usage_tracking.critique_calls = usage_tracking.writing_calls

C15_Witness ==
  /\ pc = "returned"
  /\ result.revision_count = 2
  /\ result.quality_score = 80
  /\ "research" \notin degraded

\* C16: a ResearchError, WritingError or CritiqueError without a rate-limit
\* or timeout text that escapes the orchestrated run reaches the caller as
\* an OrchestrationError whose message and workflow_stage name the phase
\* and whose original_error is the escaped error.
C16_StageErrorWrapped ==
  (pc = "raised" /\ escaped.type \in StageErrors /\ ~Reports(escaped)) =>
    /\ error.type = "OrchestrationError"
    /\ error.stage = (CASE escaped.type = "ResearchError" -> "research"
                         [] escaped.type = "WritingError" -> "writing"
                         [] escaped.type = "CritiqueError" -> "critique")
    /\ Contains(error.msg, <<"during", error.stage, "phase">>)
    /\ Contains(error.msg, escaped.msg)
    /\ error.orig = escaped.type

C16_Witness ==
  /\ pc = "raised"
  /\ cause = "tool"
  /\ escaped.type = "WritingError"
  /\ error.type = "OrchestrationError"
  /\ error.stage = "writing"
  /\ revision_count >= 1

\* C17: in a run whose critiques all ask for revision with a quality far
\* below the threshold, the cycle ends only at iteration max_iterations, by
\* the maximum-iterations rule, after max_iterations - 1 revisions; with
\* max_iterations = 2 the result has revision_count 1.
C17_StopsAtMaxIterations ==
  /\ pc \in {"finalize", "returned"} =>
       /\ iteration = max_iterations
       /\ revision_count = max_iterations - 1
       /\ ~decision.should_revise
       /\ Mentions(decision.reasoning.words, <<"maximum", "iterations">>)
  /\ pc = "returned" =>
       /\ result.revision_count = max_iterations - 1
       /\ (max_iterations = 2 => result.revision_count = 1)

C17_Witness ==
  /\ pc = "returned"
  /\ max_iterations = 2
  /\ quality_threshold = 95
  /\ result.revision_count = 1
  /\ ~HasSeverity(critique, "major") /\ ~HasSeverity(critique, "moderate")

\* The text "<section>: <issue> -> <suggestion>" of item i of the critique
ItemText(i) ==
  LET f == critique.feedback_items[i]
  IN f.section \o f.issue \o <<"->">> \o f.suggestion

\* Lines of the formatted feedback that hold the text of item i
ItemLinesOf(i) == {k \in 1..Len(feedback) : Contains(feedback[k], ItemText(i))}

\* Item i is a major or moderate item or one of the first three minor items
Shown(i) ==
  LET items == critique.feedback_items IN
  \/ items[i].severity \in {"major", "moderate"}
  \/ Cardinality({j \in 1..i : items[j].severity = "minor"}) <= 3

\* Place of a severity among the blocks
BlockOf(severity) ==
  CASE severity = "major" -> 1 [] severity = "moderate" -> 2 [] severity = "minor" -> 3

\* Header line of the block of a severity
HeaderOf(severity) ==
  CASE severity = "major" -> <<"CRITICAL", "ISSUES", "TO", "ADDRESS">>
    [] severity = "moderate" -> <<"IMPORTANT", "IMPROVEMENTS">>
    [] severity = "minor" -> <<"MINOR", "ENHANCEMENTS">>

HeaderLinesOf(severity) == {k \in 1..Len(feedback) : feedback[k] = HeaderOf(severity)}

\* C18: the formatted feedback starts with summary_feedback; every major
\* and moderate item and the first three minor items appear exactly once as
\* "<section>: <issue> -> <suggestion>", no other minor item appears; the
\* blocks come in the order major, moderate, minor with the items in their
\* original order; a block has its header exactly when the critique has an
\* item of that severity, and the text has no other line.
C18_FeedbackFormat ==
  pc = "tool_formatted" =>
    LET items == critique.feedback_items
        n == Len(items)
        shown == {i \in 1..n : Shown(i)}
        present == {v \in Severities : HasSeverity(critique, v)}
    IN
    /\ feedback[1] = critique.summary_feedback
    /\ \A i \in 1..n :
         Cardinality(ItemLinesOf(i)) = (IF i \in shown THEN 1 ELSE 0)
    /\ \A i, j \in shown : \A k \in ItemLinesOf(i), l \in ItemLinesOf(j) :
         (k < l) <=>
           \/ BlockOf(items[i].severity) < BlockOf(items[j].severity)
           \/ items[i].severity = items[j].severity /\ i < j
    /\ \A v \in Severities :
         /\ Cardinality(HeaderLinesOf(v)) = (IF v \in present THEN 1 ELSE 0)
         /\ \A h \in HeaderLinesOf(v) : \A i \in shown : \A k \in ItemLinesOf(i) :
              (h < k) <=> BlockOf(v) <= BlockOf(items[i].severity)
    /\ Cardinality({k \in 2..Len(feedback) : feedback[k] # <<>>})
         = Cardinality(shown) + Cardinality(present)

C18_Witness ==
  /\ pc = "tool_formatted"
  /\ CountSeverity(critique, "minor") = 4
  /\ ItemLinesOf(4) = {}
  /\ ItemLinesOf(3) # {}

Complete(d) ==
  /\ d.title # <<>>
  /\ d.introduction # <<>>
  /\ d.body_sections # <<>>
  /\ d.conclusion # <<>>

\* The generated draft lacks its title, introduction or body sections
LacksRequired(d) == d.title = <<>> \/ d.introduction = <<>> \/ d.body_sections = <<>>

\* What the WritingAgent gives in the current step for a generated draft d
WritingOutcomeFor(d) ==
  IF pc = "write"
  THEN WritingCall([impl |-> "agent", run |-> Ok(d)], research_data, NoFeedback, NoDraft)
  ELSE WritingCall([impl |-> "agent", run |-> Ok(d)], research_data,
                   format_feedback_for_revision(critique), draft)

\* C20: a draft returned by create_blog_draft or revise_blog_draft is
\* complete; a generated draft without a conclusion gets one (the original
\* draft's on a revision); a generated draft without title, introduction or
\* body sections is rejected with ValidationError.
C20_DraftComplete ==
  /\ (writer = "agent" /\ last_call.stage = "writing" /\ last_call.raised = NoError
        /\ pc = "critique") => Complete(draft)
  /\ (writer = "agent" /\ pc \in {"write", "revise"}) =>
       \A d \in GenDrafts :
         LET out == WritingOutcomeFor(d) IN
         /\ LacksRequired(d) => (~out.ok /\ out.exc.type = "ValidationError")
         /\ ~LacksRequired(d) =>
              /\ out.ok /\ Complete(out.val)
              /\ (d.conclusion # <<>> => out.val.conclusion = d.conclusion)
              /\ (d.conclusion = <<>> /\ pc = "revise" /\ draft.conclusion # <<>>) =>
                   out.val.conclusion = draft.conclusion

C20_Witness ==
  /\ writer = "agent"
  /\ pc = "critique"
  /\ revision_count >= 1
  /\ last_call.stage = "writing" /\ last_call.raised = NoError
  /\ draft.title = <<"Moving", "More">>
  /\ draft.conclusion # <<>>

\* The latest call went to a collaborator entry point of the repository: the
\* research and critique handles always, the writing handle when it is a
\* WritingAgent
EntryPointCalled ==
  \/ last_call.stage \in {"research", "critique"}
  \/ last_call.stage = "writing" /\ writer = "agent"

\* The stage-specific error class of a stage
StageErrorOf(stage) ==
  CASE stage = "research" -> "ResearchError"
    [] stage = "writing" -> "WritingError"
    [] stage = "critique" -> "CritiqueError"

\* C21: an exception that leaves research_topic, create_blog_draft,
\* revise_blog_draft or critique_blog_draft is the retry signal, a validation
\* error or the stage-specific error of its stage; no exception of another
\* class escapes.
C21_OnlyClassifiedErrorsEscape ==
  (EntryPointCalled /\ last_call.raised # NoError) =>
    last_call.raised.type \in {"ModelRetry", "ValidationError", StageErrorOf(last_call.stage)}

\* The counters of invocation r are those of a run on its own at the same
\* position: one research call, one writing call per iteration started, one
\* critique call per iteration criticised
SoloCounters(r) ==
  LET ut == usage_tracking[TrackingOf(r)]
      it == iteration[r]
  IN
  /\ ut.api_calls = ut.research_calls + ut.writing_calls + ut.critique_calls
  /\ ut.revision_cycles = 0
  /\ CASE pc[r] \in {"called", "research"} -> ut = NewUsageTracking
       [] pc[r] = "write" ->
            ut.research_calls = 1 /\ ut.writing_calls = 0 /\ ut.critique_calls = 0
       [] pc[r] = "critique" ->
            ut.research_calls = 1 /\ ut.writing_calls = it /\ ut.critique_calls = it - 1
       [] pc[r] \in {"decide", "revise", "finalize", "returned"} ->
            ut.research_calls = 1 /\ ut.writing_calls = it /\ ut.critique_calls = it
       [] pc[r] = "raised" ->
            /\ ut.research_calls = 1
            /\ ut.writing_calls \in {it, it + 1}
            /\ ut.critique_calls \in {ut.writing_calls - 1, ut.writing_calls}

\* C22: of two invocations interleaved on one orchestrator each starts with
\* all counters at zero, a step of one leaves the counters, the draft, the
\* critique and the rest of the other's run unchanged, and each has at every
\* position the counters of a run on its own.
C22_RunsIndependent ==
  /\ [](\A r \in Runs : SoloCounters(r))
  /\ [][\A r \in Runs :
          /\ (pc[r] = "called" /\ pc'[r] # "called") =>
               usage_tracking'[TrackingOf(r)] = NewUsageTracking
          /\ pc'[r] = pc[r] =>
               /\ usage_tracking'[TrackingOf(r)] = usage_tracking[TrackingOf(r)]
               /\ draft'[r] = draft[r]
               /\ critique'[r] = critique[r]
               /\ research_data'[r] = research_data[r]
               /\ decision'[r] = decision[r]
               /\ iteration'[r] = iteration[r]
               /\ revision_count'[r] = revision_count[r]
               /\ result'[r] = result[r]
               /\ error'[r] = error[r]]_vars

C22_Witness ==
  /\ pc[1] = "critique" /\ iteration[1] = 2
  /\ pc[2] = "decide" /\ iteration[2] = 1
  /\ usage_tracking[TrackingOf(1)].writing_calls = 2
  /\ usage_tracking[TrackingOf(2)].writing_calls = 1
  /\ draft[1] # draft[2]
  /\ critique[1] # critique[2]

\* What delegate_writing gives in the current step of a run with a
\* WritingAgent whose model call has the outcome run
WritingToolOutcomeFor(run) ==
  delegate_writing(usage_tracking, research_data,
                   IF pc = "write" THEN NoFeedback
                   ELSE format_feedback_for_revision(critique),
                   draft, [impl |-> "agent", run |-> run]).out

\* C23: only a failure whose own text names a rate limit or a timeout ends a
\* delegating tool with the retry signal; a model-call failure with another
\* text never does, whatever the topic or the title of the draft.
C23_RetryOnlyForReportedFailures ==
  /\ (last_call.stage \in {"research", "critique"} /\ last_call.tool.type = "ModelRetry") =>
       Reports(last_call.raised)
  /\ (writer = "agent" /\ pc \in {"write", "revise"}) =>
       \A run \in WritingRuns :
         (~run.ok /\ ~Reports(run.exc)) =>
           LET out == WritingToolOutcomeFor(run)
           IN out.ok \/ out.exc.type # "ModelRetry"

\* C24: when the decision is to revise, the writing call of a WritingAgent is
\* revise_blog_draft on the current draft, the research data and the
\* feedback formatted from the latest critique, whatever that text is.
C24_ContinueRevisesCurrentDraft ==
  (writer = "agent" /\ pc = "revise") =>
    \A run \in WritingRuns :
      WritingCall([impl |-> "agent", run |-> run], research_data,
                  format_feedback_for_revision(critique), draft)
        = revise_blog_draft(draft, format_feedback_for_revision(critique),
                            research_data, run)

\* The stage a collaborator call follows: research opens the run, writing
\* follows research or a critique, a critique follows writing
FollowsInSequence(before, after) ==
  \/ before = "none" /\ after = "research"
  \/ before = "research" /\ after = "writing"
  \/ before = "writing" /\ after = "critique"
  \/ before = "critique" /\ after = "writing"

C26_RevisionCounterCounts ==
  /\ pc \in {"critique", "decide", "revise", "finalize", "returned"} =>
       /\ revision_count = iteration - 1
       /\ usage_tracking.revision_cycles = revision_count
  /\ pc = "returned" => result.revision_count = revision_count

\* The research call of the run succeeded: the run has research data that is
\* not the minimal substitute
ResearchSucceeded == research_data # NoResearch /\ "research" \notin degraded

\* C27: research_calls counts the research calls that succeeded: it is 1
\* once the Research Collaborator has returned its result and stays 0 when
\* the call failed, whether the failure was degraded, signalled as retryable
\* or re-raised.
C27_ResearchCounterCountsSuccesses ==
  usage_tracking.research_calls = (IF ResearchSucceeded THEN 1 ELSE 0)

\* C28: a ValidationError raised inside a collaborator call is not replaced
\* by a minimal substitute: the delegating tool ends with it and
\* generate_blog_post raises it to the caller.
C28_ValidationErrorPropagates ==
  (/\ last_call.stage # "none"
   /\ last_call.raised.type = "ValidationError"
   /\ ~Reports(last_call.raised)) =>
    /\ last_call.tool = last_call.raised
    /\ pc = "raised"
    /\ cause = "tool"
    /\ error = last_call.raised

\* The latest entry of the tracker's history
LastUpdate == tracker.updates[Len(tracker.updates)]

\* The tracker holds what its latest update call set, and the entry of that
\* call is the last of the history
UpdateRecorded ==
  LET c == tracker.call IN
  /\ c.op = "update_stage" =>
       /\ tracker.current_stage = c.stage
       /\ LastUpdate.stage = c.stage /\ LastUpdate.agent = "workflow"
       /\ c.stage \in {"completed", "error"} => tracker.ended
  /\ c.op = "update_agent" =>
       /\ tracker.agents[c.agent_name] = AgentProgress(c.status, c.task)
       /\ LastUpdate.agent = c.agent_name
       /\ LastUpdate.stage = tracker.current_stage
  /\ c.op = "update_revision_count" =>
       /\ tracker.revision_count = c.count
       /\ LastUpdate.agent = "workflow"
       /\ LastUpdate.message = <<"Revision", "cycle", c.count, tracker.max_revisions>>

\* C29: every update_stage, update_agent and update_revision_count call adds
\* exactly one entry at the end of the tracker's history and leaves the
\* earlier entries as they were; with a callback that raises as with any
\* other the entry is recorded, the stage and agent state are updated, the
\* callback has been called once and no exception reaches the caller.
C29_ProgressSideChannel ==
  /\ [](/\ tracker.escaped = NoError
        /\ UpdateRecorded
        /\ tracker.calls = (IF tracker.callback = "none" THEN 0
                            ELSE Len(tracker.updates)))
  /\ [][/\ Len(tracker'.updates) = Len(tracker.updates) + 1
        /\ SubSeq(tracker'.updates, 1, Len(tracker.updates)) = tracker.updates
        /\ tracker'.callback = tracker.callback]_vars

C29_Witness ==
  /\ tracker.callback = "ValueError"
  /\ Len(tracker.updates) = 3
  /\ tracker.calls = 3
  /\ tracker.call.op = "update_agent"
  /\ tracker.call.agent_name = "editor"
  /\ tracker.current_stage = "revising"
  /\ tracker.revision_count = 2
  /\ LastUpdate.progress_percent = 80

\* 1 if the call of a step went to the stage, else 0
CalledStage(stage, called) == IF called = stage THEN 1 ELSE 0

\* C30: on one run context api_calls is the sum of research_calls,
\* writing_calls and critique_calls after any sequence of tool calls; every
\* call, whether it returns a result or a minimal substitute or raises the
\* retry signal or a stage error, raises the counter of its stage and
\* api_calls by exactly one and leaves the other stage counters as they
\* were, and no counter decreases.
C30_CallCountersConsistent ==
  /\ [](/\ usage_tracking.api_calls
             = usage_tracking.research_calls + usage_tracking.writing_calls
                 + usage_tracking.critique_calls
        /\ usage_tracking.total_tokens >= 0)
  /\ [][LET called == last_call'.stage IN
        /\ usage_tracking'.api_calls = usage_tracking.api_calls + 1
        /\ usage_tracking'.research_calls
             = usage_tracking.research_calls + CalledStage("research", called)
        /\ usage_tracking'.writing_calls
             = usage_tracking.writing_calls + CalledStage("writing", called)
        /\ usage_tracking'.critique_calls
             = usage_tracking.critique_calls + CalledStage("critique", called)
        /\ usage_tracking'.total_tokens >= usage_tracking.total_tokens
        /\ usage_tracking'.revision_cycles >= usage_tracking.revision_cycles]_vars

C30_Witness ==
  /\ pc = "tools"
  /\ usage_tracking.api_calls = 3
  /\ usage_tracking.research_calls = 1
  /\ usage_tracking.writing_calls = 1
  /\ usage_tracking.critique_calls = 1
  /\ last_call.stage = "critique"
  /\ last_call.tool.type = "ModelRetry"
  /\ draft.word_count = 50
  /\ research_data.confidence_level = 8

====
